---- MODULE Spec2Model ----
(***************************************************************************)
(* The handler-definition registry and request-dispatch pipeline of the    *)
(* webserver package: RegisterHandlerDef / RegisterHandlerDefs /           *)
(* RegisterHandlerDefsAndOptions (handler definitions), Server.Handle,    *)
(* Server.ServeHTTP, Server.onMissingHandler and Server.FILES (gorilla/mux *)
(* draft of the server), Output.Body and the template registry of render.  *)
(***************************************************************************)
EXTENDS Integers, Sequences, FiniteSets, TLC

VARIABLES
    methodRouters,  \* Server.methodRouters: method -> the routes of that mux.Router, in registration order
    HandlerDef,     \* Server.HandlerDef: "method:path" -> HandlerDef
    reqs,           \* the requests being served, one record per serving goroutine
    lastCall,       \* history: the registration call made last, its arguments and outcome
    regLog,         \* history: the defs whose RegisterHandlerDef call completed, in call order
    used,           \* history: number of defs handed to a registration call so far
    Settings,       \* package variable Settings: EnableStaticFileServer, staticDir, CacheTemplates
    seekOnMissingHandler,  \* package variable: look for the configured 404 template
    tr,             \* render.tr.templates: file -> the template parsed from it
    disk,           \* the file system: path -> what is stored there
    logger,         \* the warnings of onMissingHandler written to the logger, in order
    handlerDefMutex,  \* Server.handlerDefMutex: the goroutine holding it, or Free
    regs,           \* the RegisterHandlerDef calls in progress, one record per calling goroutine
    Log,            \* the *Log the application built with logger.New, or NoLog
    logCalls,       \* history: the calls made on the Log and whether each emitted a message
    trLock,         \* render.tr's RWMutex: the goroutines holding it for reading, and the one holding it for writing
    parses          \* history: file -> number of ParseFiles calls of the stepwise executeTemplate

\* the state of the process outside the Server value
process == <<Settings, seekOnMissingHandler, tr, disk, logger, Log, logCalls,
            trLock, parses>>

\* the application's Log and the calls made on it
logging == <<Log, logCalls>>

\* the lock of the template registry and the parse counts
rendering == <<trLock, parses>>

\* the state of registration calls that have not returned
registering == <<handlerDefMutex, regs>>

vars == <<methodRouters, HandlerDef, reqs, lastCall, regLog, used,
          Settings, seekOnMissingHandler, tr, disk, logger, handlerDefMutex, regs,
          Log, logCalls, trLock, parses>>

----------------------------------------------------------------------------
(* Bounds *)

\* defs handed to registration calls in one run of the dispatch specification
MaxDefs == 2
\* defs handed to registration calls in one run of the method specification
MaxMethodDefs == 3
\* defs handed to registration calls in one run of the OPTIONS specification
MaxOptionDefs == 3

----------------------------------------------------------------------------
(* HTTP method names *)

GET == "GET"
POST == "POST"
OPTIONS == "OPTIONS"
DELETE == "DELETE"
PUT == "PUT"
PATCH == "PATCH"
HEAD == "HEAD"

\* map[string]string{} (also the nil map: both have length 0 and no key)
NoHeaders == [k \in {} |-> ""]

\* mutant: the map is keyed by the path alone
KeyByPath(method, path) == ":" \o path

\* the key of the HandlerDef map
Key(method, path) == method \o ":" \o path

----------------------------------------------------------------------------
(* Handlers.  A HandlerFunc is a closure: the function it runs and the     *)
(* variables it captured (only the closure createOption returns captures   *)
(* any: methods and meta.RequestHeaders).                                  *)

UserHandler(fn) == [fn |-> fn, methods |-> <<>>, RequestHeaders |-> NoHeaders]

\* the handlers that set event.BreakHandlerChain
BreakSetters == {"deny"}

\* strconv.Itoa for n >= 0
RECURSIVE Itoa(_)
Itoa(n) ==
    LET Digit(d) == CASE d = 0 -> "0" [] d = 1 -> "1" [] d = 2 -> "2" [] d = 3 -> "3"
                      [] d = 4 -> "4" [] d = 5 -> "5" [] d = 6 -> "6" [] d = 7 -> "7"
                      [] d = 8 -> "8" [] d = 9 -> "9"
    IN IF n < 10 THEN Digit(n) ELSE Itoa(n \div 10) \o Digit(n % 10)

\* strings.Join(s, sep)
RECURSIVE Join(_, _)
Join(s, sep) ==
    IF Len(s) = 0 THEN ""
    ELSE IF Len(s) = 1 THEN s[1]
    ELSE s[1] \o sep \o Join(Tail(s), sep)

\* context.New: a fresh Context over a fresh ResponseWriter; Output.Status is 200
NewContext ==
    [BreakHandlerChain |-> FALSE,
     Status      |-> 200,
     header      |-> NoHeaders,   \* ResponseWriter.Header()
     wroteHeader |-> FALSE,
     sentStatus  |-> 0,
     sentHeader  |-> NoHeaders,   \* the header map as it was when WriteHeader committed it
     body        |-> ""]

\* Output.Header: ResponseWriter.Header().Set(key, value)
OutputHeader(c, key, value) ==
    [c EXCEPT !.header = [k \in DOMAIN c.header \cup {key} |->
                             IF k = key THEN value ELSE c.header[k]]]

\* Output.Body: WriteHeader(Status), then the Content-Length header, then the write
OutputBody(c, content) ==
    LET w == IF c.wroteHeader THEN c
             ELSE [c EXCEPT !.wroteHeader = TRUE, !.sentStatus = c.Status,
                            !.sentHeader = c.header]
        l == OutputHeader(w, "Content-Length", Itoa(Len(content)))
    IN [l EXCEPT !.body = l.body \o content]

\* Context.HTML(output)
ContextHTML(c, output) == OutputBody(OutputHeader(c, "Content-Type", "text/html"), output)

\* the handlers that call ctx.HTML and nothing else, and the string they pass
HTMLWriters ==
    [fn \in {"ExampleGet", "ExampleWebpage"} |->
        IF fn = "ExampleGet" THEN "Listing stuff" ELSE "Some page"]

\* the range loop of the OPTIONS handler over meta.RequestHeaders
RECURSIVE SetHeaders(_, _, _)
SetHeaders(c, m, keys) ==
    IF keys = {} THEN c
    ELSE LET k == CHOOSE x \in keys : TRUE
         IN SetHeaders(OutputHeader(c, k, m[k]), m, keys \ {k})

\* h(event): what one handler does to the context it is given
RunHandler(h, c) ==
    IF h.fn = "options"
    THEN OutputBody(
             SetHeaders(OutputHeader(c, "Access-Control-Allow-Methods", Join(h.methods, ",")),
                        h.RequestHeaders, DOMAIN h.RequestHeaders),
             "")
    ELSE IF h.fn \in BreakSetters
    THEN [c EXCEPT !.BreakHandlerChain = TRUE]
    ELSE IF h.fn \in DOMAIN HTMLWriters
    THEN ContextHTML(c, HTMLWriters[h.fn])
    ELSE c

----------------------------------------------------------------------------
(* Handler definitions *)

Def(method, path, handler, pre, post, headers) ==
    [Method |-> method, Path |-> path, Handler |-> handler,
     PreHandlers |-> pre, PostHandlers |-> post, RequestHeaders |-> headers]

\* a middleware-only def, as AuthHandlerDef / ThrottleHandlerDef of the demonstration
MiddlewareDef(fn) == Def("", "", UserHandler(fn), <<>>, <<>>, NoHeaders)

\* mutant: the routed methods of the earlier draft of RegisterHandlerDef, without PATCH
RoutedMethodsWithoutPatch == {"HEAD", "GET", "PUT", "DELETE", "OPTIONS", "POST"}

\* the methods RegisterHandlerDef routes
RoutedMethods == {HEAD, GET, PUT, DELETE, OPTIONS, PATCH, POST}

\* mutant: the target handler is put in front of the pre-handlers
BuildChainTargetFirst(h) ==
    <<h.Handler>> \o [i \in 1..Len(h.PreHandlers) |-> h.PreHandlers[i].Handler]

\* RegisterHandlerDef, "Pre" and "Target": the chain handed to Handle
BuildChain(h) ==
    [i \in 1..Len(h.PreHandlers) |-> h.PreHandlers[i].Handler] \o <<h.Handler>>

\* mutant: each post def contributes its own pre-handlers and its handler
BuildPostChainExpanding(h) ==
    LET exp[i \in 0..Len(h.PostHandlers)] ==
            IF i = 0 THEN <<>> ELSE exp[i - 1] \o BuildChain(h.PostHandlers[i])
    IN exp[Len(h.PostHandlers)]

\* RegisterHandlerDef: the post chain handed to Handle
BuildPostChain(h) ==
    [i \in 1..Len(h.PostHandlers) |-> h.PostHandlers[i].Handler]

\* mutant: the new route replaces the routes of its method
HandleReplacingRoutes(routers, method, path, handlers, postHandlers) ==
    LET route == [method |-> method, path |-> path,
                  handlers |-> handlers, postHandlers |-> postHandlers]
    IN [m \in DOMAIN routers \cup {method} |->
            IF m = method THEN <<route>> ELSE routers[m]]

\* Server.Handle: the router of the method (made when missing) gets one more route
Handle(routers, method, path, handlers, postHandlers) ==
    LET route == [method |-> method, path |-> path,
                  handlers |-> handlers, postHandlers |-> postHandlers]
        old == IF method \in DOMAIN routers THEN routers[method] ELSE <<>>
    IN [m \in DOMAIN routers \cup {method} |->
            IF m = method THEN Append(old, route) ELSE routers[m]]

\* the registration state a call works on
RegState(routers, defs, log) ==
    [routers |-> routers, defs |-> defs, log |-> log, panic |-> FALSE]

\* mutant: a def with the empty method is skipped instead of recorded
RegisterHandlerDefSkippingMiddleware(s, h) ==
    IF h.Method \notin RoutedMethods /\ h.Method # ""
    THEN [s EXCEPT !.panic = TRUE]
    ELSE IF h.Method = "" THEN s
    ELSE LET key == Key(h.Method, h.Path)
         IN [routers |-> Handle(s.routers, h.Method, h.Path,
                                BuildChain(h), BuildPostChain(h)),
             defs    |-> [k \in DOMAIN s.defs \cup {key} |->
                             IF k = key THEN h ELSE s.defs[k]],
             log     |-> Append(s.log, h),
             panic   |-> FALSE]

\* Server.RegisterHandlerDef
RegisterHandlerDef(s, h) ==
    IF h.Method \notin RoutedMethods /\ h.Method # ""
    THEN [s EXCEPT !.panic = TRUE]
    ELSE LET key == Key(h.Method, h.Path)
         IN [routers |-> IF h.Method \in RoutedMethods
                         THEN Handle(s.routers, h.Method, h.Path,
                                     BuildChain(h), BuildPostChain(h))
                         ELSE s.routers,
             defs    |-> [k \in DOMAIN s.defs \cup {key} |->
                             IF k = key THEN h ELSE s.defs[k]],
             log     |-> Append(s.log, h),
             panic   |-> FALSE]

\* mutant: a panic rolls the earlier registrations of the batch back
RECURSIVE RegisterAll(_, _)
RegisterAll(s, hs) ==
    IF hs = <<>> THEN s
    ELSE LET t == RegisterHandlerDef(s, Head(hs))
         IN IF t.panic THEN t ELSE RegisterAll(t, Tail(hs))

RegisterHandlerDefsRollingBack(s, hs) ==
    LET t == RegisterAll(s, hs)
    IN IF t.panic THEN [s EXCEPT !.panic = TRUE] ELSE t

\* Server.RegisterHandlerDefs: each def in input order; a panic ends the loop
RECURSIVE RegisterHandlerDefs(_, _)
RegisterHandlerDefs(s, hs) ==
    IF hs = <<>> THEN s
    ELSE LET t == RegisterHandlerDef(s, Head(hs))
         IN IF t.panic THEN t ELSE RegisterHandlerDefs(t, Tail(hs))

----------------------------------------------------------------------------
(* OPTIONS synthesis *)

ErrWebserverRequestHeaderCountWrong == "ErrWebserverRequestHeaderCountWrong"
ErrWebserverRequestHeaderMismatch == "ErrWebserverRequestHeaderMismatch"

\* the zero optionsMetadata
NoOptions ==
    [get |-> FALSE, put |-> FALSE, post |-> FALSE, delete |-> FALSE,
     head |-> FALSE, patch |-> FALSE, RequestHeaders |-> NoHeaders]

\* strings.ToUpper on the method names the specifications use
ToUpper(m) ==
    CASE m = "get" -> "GET"
      [] m = "post" -> "POST"
      [] OTHER -> m

\* the switch on strings.ToUpper(hd.Method)
MarkMethod(o, method) ==
    LET u == ToUpper(method)
    IN CASE u = GET    -> [o EXCEPT !.get = TRUE]
         [] u = POST   -> [o EXCEPT !.post = TRUE]
         [] u = PUT    -> [o EXCEPT !.put = TRUE]
         [] u = DELETE -> [o EXCEPT !.delete = TRUE]
         [] u = HEAD   -> [o EXCEPT !.head = TRUE]
         [] u = PATCH  -> [o EXCEPT !.patch = TRUE]
         [] OTHER      -> o

\* len(m) of a map
MapLen(m) == Cardinality(DOMAIN m)

\* the key/value loop over headers[hd.Path]: some key both maps hold has two values
HeaderValueDiffers(first, mine) ==
    \E key \in DOMAIN first : key \in DOMAIN mine /\ mine[key] # first[key]

\* RegisterHandlerDefsAndOptions, first loop: collect methods and headers per path,
\* returning at the first header error
RECURSIVE CollectOptions(_, _, _)
CollectOptions(h, optionsMap, headers) ==
    IF h = <<>> THEN [err |-> "nil", optionsMap |-> optionsMap]
    ELSE
      LET hd == Head(h)
          pathExists == hd.Path \in DOMAIN optionsMap
          om == IF pathExists THEN optionsMap
                ELSE [p \in DOMAIN optionsMap \cup {hd.Path} |->
                         IF p = hd.Path THEN NoOptions ELSE optionsMap[p]]
          hs == IF pathExists THEN headers
                ELSE [p \in DOMAIN headers \cup {hd.Path} |->
                         IF p = hd.Path THEN hd.RequestHeaders ELSE headers[p]]
          o  == MarkMethod(om[hd.Path], hd.Method)
      IN IF MapLen(hd.RequestHeaders) # MapLen(hs[hd.Path])
         THEN [err |-> ErrWebserverRequestHeaderCountWrong, optionsMap |-> om]
         ELSE IF MapLen(hd.RequestHeaders) > 0
                 /\ HeaderValueDiffers(hs[hd.Path], hd.RequestHeaders)
         THEN [err |-> ErrWebserverRequestHeaderMismatch, optionsMap |-> om]
         ELSE LET o2 == IF MapLen(hd.RequestHeaders) > 0
                        THEN [o EXCEPT !.RequestHeaders = hd.RequestHeaders]
                        ELSE o
              IN CollectOptions(Tail(h), [om EXCEPT ![hd.Path] = o2], hs)

\* mutant: POST is listed before PUT
createOptionPostBeforePut(path, meta) ==
    LET methods == (IF meta.get THEN <<GET>> ELSE <<>>)
                \o (IF meta.post THEN <<POST>> ELSE <<>>)
                \o (IF meta.put THEN <<PUT>> ELSE <<>>)
                \o (IF meta.delete THEN <<DELETE>> ELSE <<>>)
                \o (IF meta.head THEN <<HEAD>> ELSE <<>>)
                \o (IF meta.patch THEN <<PATCH>> ELSE <<>>)
    IN Def("OPTIONS", path,
           [fn |-> "options", methods |-> methods, RequestHeaders |-> meta.RequestHeaders],
           <<>>, <<>>, NoHeaders)

\* createOption: the OPTIONS def of one path
createOption(path, meta) ==
    LET methods == (IF meta.get THEN <<GET>> ELSE <<>>)
                \o (IF meta.put THEN <<PUT>> ELSE <<>>)
                \o (IF meta.post THEN <<POST>> ELSE <<>>)
                \o (IF meta.delete THEN <<DELETE>> ELSE <<>>)
                \o (IF meta.head THEN <<HEAD>> ELSE <<>>)
                \o (IF meta.patch THEN <<PATCH>> ELSE <<>>)
    IN Def("OPTIONS", path,
           [fn |-> "options", methods |-> methods, RequestHeaders |-> meta.RequestHeaders],
           <<>>, <<>>, NoHeaders)

\* the orders in which "for route, meta := range optionsMap" may visit the paths
RangeOrders(S) ==
    {f \in [1..Cardinality(S) -> S] : \A i, j \in DOMAIN f : f[i] = f[j] => i = j}

\* the OPTIONS defs appended to the batch, for one visiting order
SynthesizedOptions(optionsMap, order) ==
    [i \in DOMAIN order |-> createOption(order[i], optionsMap[order[i]])]

----------------------------------------------------------------------------
(* The inputs of the specifications *)

auth == MiddlewareDef("auth")
throttle == MiddlewareDef("throttle")
deny == MiddlewareDef("deny")
audit == MiddlewareDef("audit")

PreChoices == {<<>>, <<auth, throttle>>, <<auth, deny, throttle>>}
PostChoices == {<<>>, <<audit>>, <<deny, audit>>}

\* dispatch specification: routable defs with pre/post chains, and two middleware defs
DefsChain ==
    {Def(m, "/x", UserHandler("target"), pre, post, NoHeaders) :
        m \in {GET, POST}, pre \in PreChoices, post \in PostChoices}
    \cup {auth, deny}

\* the requests of the dispatch specification: <<method, path>>
Requests == {<<GET, "/x">>, <<POST, "/x">>, <<GET, "/none">>, <<PUT, "/x">>}

\* method specification: every routed method, the empty method and two unknown ones
DefsMethods ==
    {Def(m, "/x", UserHandler("target"), <<>>, <<>>, NoHeaders) :
        m \in {GET, POST, PUT, DELETE, PATCH, HEAD, OPTIONS, "", "TRACE", "get"}}

HeaderChoices ==
    {[k \in {"A"} |-> "1"], [k \in {"B"} |-> "1"], [k \in {"B"} |-> "2"]}

\* OPTIONS specification: defs of two paths with request headers
DefsOptions ==
    {Def(GET, "/x", UserHandler("target"), <<>>, <<>>, hh) : hh \in HeaderChoices}
    \cup {Def(m, p, UserHandler("target"), <<>>, <<>>, [k \in {"A"} |-> "1"]) :
            m \in {GET, POST}, p \in {"/x", "/y"}}
    \cup {Def(m, "/x", UserHandler("target"), <<>>, <<>>, [k \in {"A"} |-> "1"]) :
            m \in {PUT, OPTIONS, ""}}
    \cup {Def(PUT, "/x", UserHandler("target"), <<>>, <<>>, NoHeaders)}

\* the goroutines serving requests; Serial is the one that serves when requests
\* are served one at a time
Goroutines == {"g1", "g2"}
Serial == {"g1"}

\* the batches of at most n defs of D
Batches(D, n) == UNION {[1..k -> D] : k \in 0..n}

----------------------------------------------------------------------------
(* Settings, the file system, templates and the not-found responses *)

\* render.Settings.TemplateDirectory
TemplateDirectory == "web-src/html/"

\* Settings.SystemTemplates
SystemTemplates == [k \in {"onMissingHandler"} |-> "errors/onMissingHandler"]

\* the package variable Settings as the package initialises it
DefaultSettings ==
    [EnableStaticFileServer |-> FALSE,
     staticDir |-> [p \in {} |-> ""],
     SystemTemplates |-> SystemTemplates,
     Render |-> [TemplateDirectory |-> TemplateDirectory, CacheTemplates |-> TRUE]]

defaultResponse404 ==
    "<html><head><title>404 Not Found</title><style>body{background-color:black;color:white;margin:20%;}</style></head><body><center><h1>404 Not Found</h1></center></body></html>"

\* the warning onMissingHandler logs when the template could not be rendered
SingleAttemptWarning ==
    "Failed single attempt to load configured onMissingHandler template--serving default response"

\* what a path of the file system holds: nothing, a directory, a static file, a
\* template that parses and executes, or a template that parses and whose
\* execution fails
NoFile == "none"
Directory == "dir"
StaticFile == "file"
GoodTemplate == "template"
FailingTemplate == "failing template"

\* the bytes a static file holds, and the bytes a good template executes to
FileContent == "body{}"
TemplateOutput == "<h1>No such page</h1>"

\* os.Stat / ParseFiles: what is at a path
Stat(fs, path) == IF path \in DOMAIN fs THEN fs[path] ELSE NoFile

\* the suffixes a prefix test can cut off (request paths below a static prefix,
\* urls behind a leading slash)
Suffixes == {"", "static", "/app.css", "/img", "/none.css"}

\* strings.HasPrefix(s, prefix), and s[len(prefix):] for an s that has the prefix
HasPrefix(s, prefix) == \E rest \in Suffixes : s = prefix \o rest
TrimPrefix(s, prefix) == CHOOSE rest \in Suffixes : s = prefix \o rest

\* mutant: a successful parse is not stored in the registry
executeTemplateNeverCaching(registry, fs, cache, file) ==
    LET present == file \in DOMAIN registry
        parseErr == ~present /\ Stat(fs, file) \notin {GoodTemplate, FailingTemplate}
        t == IF present THEN registry[file] ELSE Stat(fs, file)
    IN IF parseErr
       THEN [tr |-> registry, body |-> "", err |-> "parse", parsed |-> TRUE]
       ELSE IF t = FailingTemplate
       THEN [tr |-> registry, body |-> "", err |-> "execute", parsed |-> ~present]
       ELSE [tr |-> registry, body |-> TemplateOutput, err |-> "nil", parsed |-> ~present]

\* render.executeTemplate: the template of the registry, or else the parsed file
\* (stored in the registry when CacheTemplates is set), executed; parsed tells
\* whether ParseFiles was called
executeTemplate(registry, fs, cache, file) ==
    LET present == file \in DOMAIN registry
        parseErr == ~present /\ Stat(fs, file) \notin {GoodTemplate, FailingTemplate}
        t == IF present THEN registry[file] ELSE Stat(fs, file)
        stored == IF ~present /\ cache
                  THEN [f \in DOMAIN registry \cup {file} |->
                           IF f = file THEN t ELSE registry[f]]
                  ELSE registry
    IN IF parseErr
       THEN [tr |-> registry, body |-> "", err |-> "parse", parsed |-> TRUE]
       ELSE IF t = FailingTemplate
       THEN [tr |-> stored, body |-> "", err |-> "execute", parsed |-> ~present]
       ELSE [tr |-> stored, body |-> TemplateOutput, err |-> "nil", parsed |-> ~present]

\* render.HTML.Render(view)
Render(registry, fs, settings, view) ==
    executeTemplate(registry, fs, settings.Render.CacheTemplates,
                    settings.Render.TemplateDirectory \o view \o ".html")

\* Context.HTMLTemplate(name, nil): the context, the registry and the error after it
HTMLTemplate(c, registry, fs, settings, name) ==
    LET r == Render(registry, fs, settings, name)
    IN [event |-> IF r.err = "nil" THEN ContextHTML(c, r.body) ELSE c,
        tr |-> r.tr, err |-> r.err, parsed |-> r.parsed]

\* http.NotFound, the handler a mux.Router without NotFoundHandler answers with
NotFound(c) ==
    LET h == OutputHeader(OutputHeader(c, "Content-Type", "text/plain; charset=utf-8"),
                          "X-Content-Type-Options", "nosniff")
    IN [h EXCEPT !.wroteHeader = TRUE, !.sentStatus = 404, !.sentHeader = h.header,
                 !.body = "404 page not found\n"]

\* http.ServeFile on a response writer: a file is sent with status 200, a
\* directory asked for without trailing slash is redirected; WriteHeader on a
\* response whose header is committed changes nothing
httpServeFile(c, fs, filePath) ==
    LET dir == Stat(fs, filePath) = Directory
        h == IF dir THEN OutputHeader(c, "Location", "img/")
             ELSE OutputHeader(OutputHeader(c, "Content-Type", "text/css; charset=utf-8"),
                               "Content-Length", Itoa(Len(FileContent)))
        w == IF h.wroteHeader THEN h
             ELSE [h EXCEPT !.wroteHeader = TRUE,
                            !.sentStatus = IF dir THEN 301 ELSE 200,
                            !.sentHeader = h.header]
    IN IF dir THEN w ELSE [w EXCEPT !.body = w.body \o FileContent]

\* the file system the process starts on: the static directory of the
\* application and the templates of its views
InitialDisk ==
    [p \in {"public/app.css", "public/img",
            "web-src/html/errors/onMissingHandler.html", "web-src/html/index.html"} |->
        CASE p = "public/app.css" -> StaticFile
          [] p = "public/img" -> Directory
          [] OTHER -> GoodTemplate]

----------------------------------------------------------------------------
(* State *)

\* no Log has been built
NoLog == [built |-> "none"]

\* sync.Mutex: the zero value is an unlocked mutex
Free == "free"

\* a goroutine that is in no registration call
NotRegistering == [pc |-> "idle", h |-> auth, ok |-> FALSE]

\* render.tr's RWMutex with no holder
Unlocked == [readers |-> {}, writer |-> Free]

Idle ==
    [pc |-> "idle", method |-> "", path |-> "", matched |-> FALSE,
     handlers |-> <<>>, postHandlers |-> <<>>, i |-> 0, event |-> NewContext,
     trace |-> <<>>, postTrace |-> <<>>, at |-> 0,
     \* history: the context each handler that ran was given
     seen |-> <<>>,
     \* ServeHTTP's static branch: taken or not, filePath, and whether ServeFile
     \* follows onMissingHandler; onMissingHandler's err and whether it rendered
     static |-> FALSE, filePath |-> "", thenServeFile |-> FALSE,
     err |-> "nil", rendered |-> FALSE, latched |-> FALSE,
     \* history: whether the rendering called ParseFiles
     parsed |-> FALSE,
     \* executeTemplate's locals present and t
     present |-> FALSE, t |-> NoFile,
     \* history: onMissingHandler was called, http.ServeFile was called
     missing |-> FALSE, served |-> FALSE]

\* webserver.New: one router, for GET, and an empty HandlerDef map
Init ==
    /\ methodRouters = [m \in {GET} |-> <<>>]
    /\ HandlerDef = [k \in {} |-> auth]
    /\ reqs = [g \in Goroutines |-> Idle]
    /\ lastCall = [op |-> "New", arg |-> <<>>, result |-> "nil", synth |-> <<>>]
    /\ regLog = <<>>
    /\ used = 0
    /\ Settings = DefaultSettings
    /\ seekOnMissingHandler = TRUE
    /\ tr = [f \in {} |-> GoodTemplate]
    /\ disk = InitialDisk
    /\ logger = <<>>
    /\ handlerDefMutex = Free
    /\ regs = [g \in Goroutines |-> NotRegistering]
    /\ Log = NoLog
    /\ logCalls = <<>>
    /\ trLock = Unlocked
    /\ parses = [f \in DOMAIN InitialDisk |-> 0]

\* the caller's view of a finished registration call
Outcome(t) == IF t.panic THEN "panic" ELSE "nil"

Registered(t) ==
    /\ methodRouters' = t.routers
    /\ HandlerDef' = t.defs
    /\ regLog' = t.log

\* a call of s.RegisterHandlerDef(h)
RegisterHandlerDefCall(D, max) ==
    \E h \in D :
        /\ used < max
        /\ LET t == RegisterHandlerDef(RegState(methodRouters, HandlerDef, regLog), h)
           IN /\ Registered(t)
              /\ lastCall' = [op |-> "RegisterHandlerDef", arg |-> <<h>>,
                              result |-> Outcome(t), synth |-> <<>>]
        /\ used' = used + 1
        /\ UNCHANGED <<reqs, process, registering>>

\* a call of s.RegisterHandlerDefs(hs)
RegisterHandlerDefsCall(D, max) ==
    \E hs \in Batches(D, max - used) :
        /\ LET t == RegisterHandlerDefs(RegState(methodRouters, HandlerDef, regLog), hs)
           IN /\ Registered(t)
              /\ lastCall' = [op |-> "RegisterHandlerDefs", arg |-> hs,
                              result |-> Outcome(t), synth |-> <<>>]
        /\ used' = used + Len(hs)
        /\ UNCHANGED <<reqs, process, registering>>

\* mutant: the synthesized OPTIONS defs are registered before the defs of the batch
RegisterHandlerDefsAndOptionsCallOptionsFirst(D, max) ==
    \E hs \in Batches(D, max - used) :
        LET c == CollectOptions(hs, [p \in {} |-> NoOptions], [p \in {} |-> NoHeaders])
        IN /\ used' = used + Len(hs)
           /\ UNCHANGED <<reqs, process, registering>>
           /\ IF c.err # "nil"
              THEN /\ UNCHANGED <<methodRouters, HandlerDef, regLog>>
                   /\ lastCall' = [op |-> "RegisterHandlerDefsAndOptions", arg |-> hs,
                                   result |-> c.err, synth |-> <<>>]
              ELSE \E order \in RangeOrders(DOMAIN c.optionsMap) :
                     LET synth == SynthesizedOptions(c.optionsMap, order)
                         t == RegisterHandlerDefs(
                                  RegState(methodRouters, HandlerDef, regLog), synth \o hs)
                     IN /\ Registered(t)
                        /\ lastCall' = [op |-> "RegisterHandlerDefsAndOptions", arg |-> hs,
                                        result |-> Outcome(t), synth |-> synth]

\* a call of s.RegisterHandlerDefsAndOptions(hs)
RegisterHandlerDefsAndOptionsCall(D, max) ==
    \E hs \in Batches(D, max - used) :
        LET c == CollectOptions(hs, [p \in {} |-> NoOptions], [p \in {} |-> NoHeaders])
        IN /\ used' = used + Len(hs)
           /\ UNCHANGED <<reqs, process, registering>>
           /\ IF c.err # "nil"
              THEN /\ UNCHANGED <<methodRouters, HandlerDef, regLog>>
                   /\ lastCall' = [op |-> "RegisterHandlerDefsAndOptions", arg |-> hs,
                                   result |-> c.err, synth |-> <<>>]
              ELSE \E order \in RangeOrders(DOMAIN c.optionsMap) :
                     LET synth == SynthesizedOptions(c.optionsMap, order)
                         t == RegisterHandlerDefs(
                                  RegState(methodRouters, HandlerDef, regLog), hs \o synth)
                     IN /\ Registered(t)
                        /\ lastCall' = [op |-> "RegisterHandlerDefsAndOptions", arg |-> hs,
                                        result |-> Outcome(t), synth |-> synth]

\* RegisterHandlerDef called by goroutine g, up to the switch on h.Method: a
\* routed method goes into Server.Handle, the empty method straight to the lock
\* (an unrecognized method panics: RegisterHandlerDefCall)
RegisterBegin(g, h, max) ==
    /\ regs[g].pc = "idle"
    /\ used < max
    /\ h.Method \in RoutedMethods \cup {""}
    /\ regs' = [regs EXCEPT ![g] =
          [pc |-> IF h.Method \in RoutedMethods THEN "Handle" ELSE "Lock",
           h |-> h, ok |-> FALSE]]
    /\ used' = used + 1
    /\ UNCHANGED <<methodRouters, HandlerDef, reqs, lastCall, regLog, process,
                   handlerDefMutex>>

\* Server.Handle, "router, ok := s.methodRouters[method]"
HandleLookup(g) ==
    /\ regs[g].pc = "Handle"
    /\ regs' = [regs EXCEPT ![g] =
          [@ EXCEPT !.pc = "HandleFunc",
                    !.ok = (regs[g].h.Method \in DOMAIN methodRouters)]]
    /\ UNCHANGED <<methodRouters, HandlerDef, reqs, lastCall, regLog, used, process,
                   handlerDefMutex>>

\* Server.Handle, the rest: when the lookup found no router, a new router is
\* stored in the map, replacing what the map holds by now; the route is
\* appended to the router the goroutine holds
HandleStore(g) ==
    LET h == regs[g].h
        route == [method |-> h.Method, path |-> h.Path,
                  handlers |-> BuildChain(h), postHandlers |-> BuildPostChain(h)]
    IN /\ regs[g].pc = "HandleFunc"
       /\ methodRouters' =
             IF regs[g].ok
             THEN [methodRouters EXCEPT ![h.Method] = Append(@, route)]
             ELSE [m \in DOMAIN methodRouters \cup {h.Method} |->
                      IF m = h.Method THEN <<route>> ELSE methodRouters[m]]
       /\ regs' = [regs EXCEPT ![g] = [@ EXCEPT !.pc = "Lock"]]
       /\ UNCHANGED <<HandlerDef, reqs, lastCall, regLog, used, process, handlerDefMutex>>

\* RegisterHandlerDef, s.handlerDefMutex.Lock()
LockHandlerDef(g) ==
    /\ regs[g].pc = "Lock"
    /\ handlerDefMutex = Free
    /\ handlerDefMutex' = g
    /\ regs' = [regs EXCEPT ![g] = [@ EXCEPT !.pc = "Store"]]
    /\ UNCHANGED <<methodRouters, HandlerDef, reqs, lastCall, regLog, used, process>>

\* RegisterHandlerDef, the store into s.HandlerDef and the deferred Unlock
StoreHandlerDef(g) ==
    LET h == regs[g].h
        key == Key(h.Method, h.Path)
    IN /\ regs[g].pc = "Store"
       /\ handlerDefMutex = g
       /\ HandlerDef' = [k \in DOMAIN HandlerDef \cup {key} |->
                            IF k = key THEN h ELSE HandlerDef[k]]
       /\ handlerDefMutex' = Free
       /\ regLog' = Append(regLog, h)
       /\ lastCall' = [op |-> "RegisterHandlerDef", arg |-> <<h>>,
                       result |-> "nil", synth |-> <<>>]
       /\ regs' = [regs EXCEPT ![g] = NotRegistering]
       /\ UNCHANGED <<methodRouters, reqs, used, process>>

\* mutant: the context is the one goroutine g1's request is using
captureRequestShared == reqs["g1"].event

\* Server.captureRequest: context.New(w, req), a new Context for this request
captureRequest == NewContext

\* mux.Router.Match: the first route, in registration order, whose path and
\* method matcher accept the request; 0 when there is none
Match(router, method, path) ==
    LET hits == {n \in 1..Len(router) :
                    router[n].path = path /\ router[n].method = method}
    IN IF hits = {} THEN 0 ELSE CHOOSE n \in hits : \A k \in hits : n <= k

\* Server.ServeHTTP.  With the static file server on, a request below a static
\* prefix is answered from the file system: onMissingHandler when os.Stat fails,
\* onMissingHandler and then http.ServeFile for a directory, http.ServeFile for a
\* file.  Every other request goes to the router of its method, or the GET router:
\* a matched route starts its closure on a fresh context (captureRequest), an
\* unmatched request gets the router's own 404 (New sets no NotFoundHandler)
ServeHTTP(g, method, path) ==
    /\ reqs[g].pc = "idle"
    /\ LET prefixes == IF Settings.EnableStaticFileServer
                       THEN {p \in DOMAIN Settings.staticDir : HasPrefix(path, p)}
                       ELSE {}
           router == IF method \in DOMAIN methodRouters
                     THEN methodRouters[method] ELSE methodRouters[GET]
           n == Match(router, method, path)
       IN IF prefixes # {}
          THEN \E prefix \in prefixes :
                 LET filePath == Settings.staticDir[prefix] \o TrimPrefix(path, prefix)
                     info == Stat(disk, filePath)
                 IN reqs' = [reqs EXCEPT ![g] =
                       [Idle EXCEPT !.pc = IF info = NoFile \/ info = Directory
                                           THEN "onMissingHandler" ELSE "ServeFile",
                                    !.method = method, !.path = path, !.at = Len(regLog),
                                    !.static = TRUE, !.filePath = filePath,
                                    !.thenServeFile = (info = Directory)]]
          ELSE reqs' = [reqs EXCEPT ![g] =
                 IF n = 0
                 THEN [Idle EXCEPT !.pc = "done", !.method = method, !.path = path,
                                   !.at = Len(regLog),
                                   !.event = NotFound(NewContext)]
                 ELSE [Idle EXCEPT !.pc = "chain", !.method = method, !.path = path,
                                   !.matched = TRUE, !.at = Len(regLog),
                                   !.event = captureRequest,
                                   !.handlers = router[n].handlers,
                                   !.postHandlers = router[n].postHandlers,
                                   !.i = 1]]
    /\ UNCHANGED <<methodRouters, HandlerDef, lastCall, regLog, used, process, registering>>

\* onMissingHandler up to "if seekOnMissingHandler": a fresh context with status
\* 404, and the read of the package variable
onMissingHandlerSeek(g) ==
    LET r == reqs[g]
    IN /\ r.pc = "onMissingHandler"
       /\ reqs' = [reqs EXCEPT ![g] =
             [r EXCEPT !.event = [captureRequest EXCEPT !.Status = 404],
                       !.latched = ~seekOnMissingHandler, !.missing = TRUE,
                       !.pc = IF seekOnMissingHandler THEN "HTMLTemplate" ELSE "default"]]
       /\ UNCHANGED <<methodRouters, HandlerDef, lastCall, regLog, used, process, registering>>

\* mutant: a failed rendering leaves seekOnMissingHandler as it is
onMissingHandlerTemplateKeepSeeking(g) ==
    LET r == reqs[g]
        t == HTMLTemplate(r.event, tr, disk, Settings, Settings.SystemTemplates["onMissingHandler"])
    IN /\ r.pc = "HTMLTemplate"
       /\ reqs' = [reqs EXCEPT ![g] =
             [r EXCEPT !.event = t.event, !.err = t.err, !.rendered = TRUE,
                       !.parsed = t.parsed, !.pc = "default"]]
       /\ tr' = t.tr
       /\ IF t.err # "nil"
          THEN /\ logger' = Append(logger, SingleAttemptWarning)
               /\ UNCHANGED seekOnMissingHandler
          ELSE UNCHANGED <<logger, seekOnMissingHandler>>
       /\ UNCHANGED <<methodRouters, HandlerDef, lastCall, regLog, used, Settings, disk,
                      registering, logging,
                   rendering>>

\* onMissingHandler, the body of "if seekOnMissingHandler": the configured
\* template is rendered; on an error the warning is logged and the package
\* variable is set to false
onMissingHandlerTemplate(g) ==
    LET r == reqs[g]
        t == HTMLTemplate(r.event, tr, disk, Settings, Settings.SystemTemplates["onMissingHandler"])
    IN /\ r.pc = "HTMLTemplate"
       /\ reqs' = [reqs EXCEPT ![g] =
             [r EXCEPT !.event = t.event, !.err = t.err, !.rendered = TRUE,
                       !.parsed = t.parsed, !.pc = "default"]]
       /\ tr' = t.tr
       /\ IF t.err # "nil"
          THEN /\ logger' = Append(logger, SingleAttemptWarning)
               /\ seekOnMissingHandler' = FALSE
          ELSE UNCHANGED <<logger, seekOnMissingHandler>>
       /\ UNCHANGED <<methodRouters, HandlerDef, lastCall, regLog, used, Settings, disk,
                      registering, logging,
                   rendering>>

\* onMissingHandler, "if !seekOnMissingHandler": the second read of the package
\* variable and the default body; then the return to ServeHTTP, which returns or,
\* for a directory, goes on to http.ServeFile
onMissingHandlerDefault(g) ==
    LET r == reqs[g]
    IN /\ r.pc = "default"
       /\ reqs' = [reqs EXCEPT ![g] =
             [r EXCEPT !.event = IF ~seekOnMissingHandler
                                 THEN OutputBody(r.event, defaultResponse404)
                                 ELSE r.event,
                       !.pc = IF r.thenServeFile THEN "ServeFile" ELSE "done"]]
       /\ UNCHANGED <<methodRouters, HandlerDef, lastCall, regLog, used, process, registering>>

\* ServeHTTP, http.ServeFile(w, req, filePath)
ServeFile(g) ==
    LET r == reqs[g]
    IN /\ r.pc = "ServeFile"
       /\ reqs' = [reqs EXCEPT ![g] =
             [r EXCEPT !.event = httpServeFile(r.event, disk, r.filePath),
                       !.served = TRUE, !.pc = "done"]]
       /\ UNCHANGED <<methodRouters, HandlerDef, lastCall, regLog, used, process, registering>>

\* Server.FILES(url, path)
FILESUnnormalized(url, path) ==
    /\ Settings' = [Settings EXCEPT
                       !.EnableStaticFileServer = TRUE,
                       !.staticDir = [k \in DOMAIN Settings.staticDir \cup {url} |->
                                         IF k = url THEN path ELSE Settings.staticDir[k]]]
    /\ UNCHANGED <<methodRouters, HandlerDef, reqs, lastCall, regLog, used,
                   seekOnMissingHandler, tr, disk, logger, registering, logging,
                   rendering>>
FILES(url, path) ==
    LET u == IF HasPrefix(url, "/") THEN url ELSE "/" \o url
    IN /\ Settings' = [Settings EXCEPT
                          !.EnableStaticFileServer = TRUE,
                          !.staticDir = [k \in DOMAIN Settings.staticDir \cup {u} |->
                                            IF k = u THEN path ELSE Settings.staticDir[k]]]
       /\ UNCHANGED <<methodRouters, HandlerDef, reqs, lastCall, regLog, used,
                      seekOnMissingHandler, tr, disk, logger, registering, logging,
                   rendering>>

\* a handler that calls ctx.HTMLTemplate(view, nil) on the context of its request
HTMLTemplateCall(g, view) ==
    LET t == HTMLTemplate(captureRequest, tr, disk, Settings, view)
    IN /\ reqs[g].pc = "idle"
       /\ reqs' = [reqs EXCEPT ![g] =
             [Idle EXCEPT !.pc = "done", !.event = t.event, !.err = t.err,
                          !.rendered = TRUE, !.parsed = t.parsed,
                          !.filePath = Settings.Render.TemplateDirectory \o view \o ".html"]]
       /\ tr' = t.tr
       /\ UNCHANGED <<methodRouters, HandlerDef, lastCall, regLog, used, Settings,
                      seekOnMissingHandler, disk, logger, registering, logging,
                   rendering>>

\* the application assigns render.Settings.CacheTemplates
SetCacheTemplates(b) ==
    /\ Settings.Render.CacheTemplates # b
    /\ Settings' = [Settings EXCEPT !.Render.CacheTemplates = b]
    /\ UNCHANGED <<methodRouters, HandlerDef, reqs, lastCall, regLog, used,
                   seekOnMissingHandler, tr, disk, logger, registering, logging,
                   rendering>>

\* the environment: a template file is written, replaced or removed
WriteTemplate(file, kind) ==
    /\ file \in DOMAIN disk
    /\ disk[file] # kind
    /\ disk' = [disk EXCEPT ![file] = kind]
    /\ UNCHANGED <<methodRouters, HandlerDef, reqs, lastCall, regLog, used,
                   Settings, seekOnMissingHandler, tr, logger, registering, logging,
                   rendering>>

\* the HandlerFunc value of a def whose Handler field is not set
NilHandler == [fn |-> "nil", methods |-> <<>>, RequestHeaders |-> <<>>]

\* the handlers whose call panics: boom panics in its body, calling the nil
\* HandlerFunc is a nil dereference
Panickers == {"boom", NilHandler.fn}

\* mutant: the closure recovers the panic of a handler and goes on
AfterCallRecovering(pc, h) == pc

\* the route closure after the call h(event): it goes on where it was, unless h
\* panicked; the closure has no recover, so the panic leaves it
AfterCall(pc, h) == IF h.fn \in Panickers THEN "panicked" ELSE pc

\* mutant: the loop over handlers does not look at BreakHandlerChain
InvokeHandlerIgnoringBreak(g) ==
    LET r == reqs[g]
    IN /\ r.pc = "chain"
       /\ r.i <= Len(r.handlers)
       /\ reqs' = [reqs EXCEPT ![g] =
             [r EXCEPT !.event = RunHandler(r.handlers[r.i], r.event),
                       !.trace = Append(r.trace, r.handlers[r.i].fn),
                       !.seen = Append(r.seen, r.event),
                       !.i = r.i + 1,
                       !.pc = AfterCall(r.pc, r.handlers[r.i])]]
       /\ UNCHANGED <<methodRouters, HandlerDef, lastCall, regLog, used, process, registering>>

\* the route closure, "for _, h := range handlers": the next handler of the chain
\* runs unless the context's BreakHandlerChain is set
InvokeHandler(g) ==
    LET r == reqs[g]
    IN /\ r.pc = "chain"
       /\ r.i <= Len(r.handlers)
       /\ ~r.event.BreakHandlerChain
       /\ reqs' = [reqs EXCEPT ![g] =
             [r EXCEPT !.event = RunHandler(r.handlers[r.i], r.event),
                       !.trace = Append(r.trace, r.handlers[r.i].fn),
                       !.seen = Append(r.seen, r.event),
                       !.i = r.i + 1,
                       !.pc = AfterCall(r.pc, r.handlers[r.i])]]
       /\ UNCHANGED <<methodRouters, HandlerDef, lastCall, regLog, used, process, registering>>

\* the route closure leaves the first loop: chain exhausted, or break
EndChain(g) ==
    LET r == reqs[g]
    IN /\ r.pc = "chain"
       /\ (r.i > Len(r.handlers) \/ r.event.BreakHandlerChain)
       /\ reqs' = [reqs EXCEPT ![g] = [r EXCEPT !.pc = "post", !.i = 1]]
       /\ UNCHANGED <<methodRouters, HandlerDef, lastCall, regLog, used, process, registering>>

\* the route closure, "for _, h := range postHandlers": the next post handler runs
InvokePostHandler(g) ==
    LET r == reqs[g]
    IN /\ r.pc = "post"
       /\ r.i <= Len(r.postHandlers)
       /\ reqs' = [reqs EXCEPT ![g] =
             [r EXCEPT !.event = RunHandler(r.postHandlers[r.i], r.event),
                       !.postTrace = Append(r.postTrace, r.postHandlers[r.i].fn),
                       !.seen = Append(r.seen, r.event),
                       !.i = r.i + 1,
                       !.pc = AfterCall(r.pc, r.postHandlers[r.i])]]
       /\ UNCHANGED <<methodRouters, HandlerDef, lastCall, regLog, used, process, registering>>

\* the route closure returns
Return(g) ==
    LET r == reqs[g]
    IN /\ r.pc = "post"
       /\ r.i > Len(r.postHandlers)
       /\ reqs' = [reqs EXCEPT ![g] = [r EXCEPT !.pc = "done"]]
       /\ UNCHANGED <<methodRouters, HandlerDef, lastCall, regLog, used, process, registering>>

\* the response is complete; the goroutine takes the next request
Release(g) ==
    /\ reqs[g].pc = "done"
    /\ reqs' = [reqs EXCEPT ![g] = Idle]
    /\ UNCHANGED <<methodRouters, HandlerDef, lastCall, regLog, used, process, registering>>

\* net/http recovers the panic that left ServeHTTP, logs it and closes the
\* connection; the goroutine's request is over
Abort(g) ==
    /\ reqs[g].pc = "panicked"
    /\ reqs' = [reqs EXCEPT ![g] = Idle]
    /\ UNCHANGED <<methodRouters, HandlerDef, lastCall, regLog, used, process, registering>>

Dispatch ==
    \E g \in Serial :
        \/ \E q \in Requests : ServeHTTP(g, q[1], q[2])
        \/ InvokeHandler(g)
        \/ EndChain(g)
        \/ InvokePostHandler(g)
        \/ Return(g)
        \/ Release(g)

\* registration of single defs, and dispatch
Next ==
    \/ RegisterHandlerDefCall(DefsChain, MaxDefs)
    \/ Dispatch

Spec == Init /\ [][Next]_vars

\* registration of defs of every method, one by one and in batches
NextMethods ==
    \/ RegisterHandlerDefCall(DefsMethods, MaxMethodDefs)
    \/ RegisterHandlerDefsCall(DefsMethods, MaxMethodDefs)

SpecMethods == Init /\ [][NextMethods]_vars

\* registration of batches with OPTIONS synthesis
NextOptions ==
    \/ RegisterHandlerDefsAndOptionsCall(DefsOptions, MaxOptionDefs)

SpecOptions == Init /\ [][NextOptions]_vars

----------------------------------------------------------------------------
(* Properties *)

\* the functions of a chain of handlers, in order
Fns(hs) == [k \in DOMAIN hs |-> hs[k].fn]

\* the declared order of a def: pre-handlers, the def's own handler, post-handlers
ExpectedOrder(d) ==
    [k \in 1..Len(d.PreHandlers) |-> d.PreHandlers[k].Handler.fn]
    \o <<d.Handler.fn>>
    \o [k \in 1..Len(d.PostHandlers) |-> d.PostHandlers[k].Handler.fn]

\* the number of routes of (method, path) in a route table
RouteCount(routers, method, path) ==
    IF method \in DOMAIN routers
    THEN Cardinality({n \in 1..Len(routers[method]) :
                         routers[method][n].path = path /\ routers[method][n].method = method})
    ELSE 0

\* a registration call was made in this step (lastCall' describes it)
Called(op) == used' # used /\ lastCall'.op = op

HttpVerbs == {"GET", "POST", "PUT", "DELETE", "PATCH", "HEAD", "OPTIONS"}

C2_ShortCircuit ==
    \A g \in Goroutines :
        LET r == reqs[g]
        IN r.matched =>
             /\ Len(r.trace) <= Len(r.handlers)
             /\ \A k \in 1..Len(r.trace) :
                   /\ r.trace[k] = r.handlers[k].fn
                   /\ \A j \in 1..(k - 1) : r.handlers[j].fn \notin BreakSetters
             /\ r.pc = "done" => r.postTrace = Fns(r.postHandlers)

C2_Witness ==
    \E g \in Goroutines :
        /\ reqs[g].pc = "done"
        /\ reqs[g].trace = <<"auth", "deny">>
        /\ Len(reqs[g].handlers) = 4
        /\ reqs[g].postTrace = <<"deny", "audit">>

\* the def registered last for (method, path) among the defs of log
LastRegistered(log, method, path) ==
    LET hits == {n \in 1..Len(log) : log[n].Method = method /\ log[n].Path = path}
    IN log[CHOOSE n \in hits : \A k \in hits : k <= n]

\* C3: a request to a (method, path) registered more than once is served by the
\* chain of the most recent registration, and the HandlerDef map holds that
\* registration's def.
C3_LastRegistrationWins ==
    \A g \in Goroutines :
        LET r == reqs[g]
        IN (r.matched /\ r.at = Len(regLog))
           => LET d == LastRegistered(regLog, r.method, r.path)
              IN /\ HandlerDef[Key(r.method, r.path)] = d
                 /\ Fns(r.handlers) \o Fns(r.postHandlers) = ExpectedOrder(d)

\* the verbs an OPTIONS response may list, in the order it lists them
AllowOrder == <<"GET", "PUT", "POST", "DELETE", "HEAD", "PATCH">>

\* the Access-Control-Allow-Methods header a handler commits on a fresh context
AllowMethodsSent(h) ==
    LET c == RunHandler(h, NewContext)
    IN IF "Access-Control-Allow-Methods" \in DOMAIN c.sentHeader
       THEN c.sentHeader["Access-Control-Allow-Methods"] ELSE "(unset)"

\* the verbs of AllowOrder that some def of batch declares on path, comma-joined
DeclaredVerbs(batch, path) ==
    LET Declared(v) == \E k \in DOMAIN batch : batch[k].Path = path /\ batch[k].Method = v
    IN Join(SelectSeq(AllowOrder, Declared), ",")

OptionsReturned(result) ==
    lastCall.op = "RegisterHandlerDefsAndOptions" /\ lastCall.result = result

\* C4: after a successful RegisterHandlerDefsAndOptions the OPTIONS handler
\* synthesized for a path sends Access-Control-Allow-Methods equal to the verbs among
\* GET, PUT, POST, DELETE, HEAD, PATCH that some def of the batch declares on that
\* path, comma-joined in that fixed order, whatever the order of the batch.
C4_AllowMethods ==
    OptionsReturned("nil")
    => \A i \in DOMAIN lastCall.synth :
          AllowMethodsSent(lastCall.synth[i].Handler)
            = DeclaredVerbs(lastCall.arg, lastCall.synth[i].Path)

C4_Witness ==
    /\ OptionsReturned("nil")
    /\ Len(lastCall.arg) = 3
    /\ lastCall.arg[1].Method = "POST" /\ lastCall.arg[1].Path = "/x"
    /\ lastCall.arg[2].Method = "PUT" /\ lastCall.arg[2].Path = "/x"
    /\ lastCall.arg[3].Method = "GET" /\ lastCall.arg[3].Path = "/x"
    /\ AllowMethodsSent(lastCall.synth[1].Handler) = "GET,PUT,POST"

\* C5: RegisterHandlerDefsAndOptions returns a header error whenever two defs of
\* the batch share a path and do not declare the same set of request-header names.
C5_HeaderNamesChecked ==
    (/\ lastCall.op = "RegisterHandlerDefsAndOptions"
     /\ \E i, j \in DOMAIN lastCall.arg :
           /\ lastCall.arg[i].Path = lastCall.arg[j].Path
           /\ DOMAIN lastCall.arg[i].RequestHeaders # DOMAIN lastCall.arg[j].RequestHeaders)
    => lastCall.result \in {"ErrWebserverRequestHeaderCountWrong",
                            "ErrWebserverRequestHeaderMismatch"}

\* two defs of the batch share a path and give one header key two values
ValueConflict(batch) ==
    \E i, j \in DOMAIN batch :
        /\ batch[i].Path = batch[j].Path
        /\ \E key \in DOMAIN batch[i].RequestHeaders \cap DOMAIN batch[j].RequestHeaders :
              batch[i].RequestHeaders[key] # batch[j].RequestHeaders[key]

HeaderErrors == {ErrWebserverRequestHeaderCountWrong, ErrWebserverRequestHeaderMismatch}

\* C6: a RegisterHandlerDefsAndOptions call on a batch in which two defs of one path
\* give different values for the same header key returns a header error and changes
\* neither the route table nor the HandlerDef map.  (The claim names
\* ErrWebserverRequestHeaderMismatch; either header error is accepted here, so a
\* violation is a batch that is registered although it holds the conflict.)
C6_MismatchRegistersNothing ==
    [][(Called("RegisterHandlerDefsAndOptions") /\ ValueConflict(lastCall'.arg))
       => /\ lastCall'.result \in HeaderErrors
          /\ methodRouters' = methodRouters
          /\ HandlerDef' = HandlerDef]_vars

\* the distinct paths of a batch
PathsOf(batch) == {batch[k].Path : k \in DOMAIN batch}

\* one OPTIONS def per distinct path of the batch
OnePerPath(batch, synth) ==
    /\ Len(synth) = Cardinality(PathsOf(batch))
    /\ {synth[i].Path : i \in DOMAIN synth} = PathsOf(batch)
    /\ \A i \in DOMAIN synth : synth[i].Method = "OPTIONS"

\* C7: after a successful RegisterHandlerDefsAndOptions one OPTIONS def was
\* synthesized per distinct path, and the registry contains every original def and
\* "OPTIONS:p" for each path p.
C7_EveryOriginalDefKept ==
    OptionsReturned("nil")
    => /\ OnePerPath(lastCall.arg, lastCall.synth)
       /\ \A k \in DOMAIN lastCall.arg :
             LET key == Key(lastCall.arg[k].Method, lastCall.arg[k].Path)
             IN key \in DOMAIN HandlerDef /\ HandlerDef[key] = lastCall.arg[k]
       /\ \A p \in PathsOf(lastCall.arg) : Key("OPTIONS", p) \in DOMAIN HandlerDef

\* a served request has run the handler of every middleware-only def that the def of
\* its route lists: a pre-handler unless an earlier handler broke the chain, a
\* post-handler always
MiddlewareRan ==
    \A g \in Goroutines :
        LET r == reqs[g]
        IN (r.pc = "done" /\ r.matched)
           => \E n \in 1..r.at :
                 LET d == regLog[n]
                 IN /\ d.Method = r.method /\ d.Path = r.path
                    /\ \A k \in DOMAIN d.PreHandlers :
                          (/\ d.PreHandlers[k].Method = ""
                           /\ \A j \in 1..(k - 1) :
                                 d.PreHandlers[j].Handler.fn \notin BreakSetters)
                          => (k <= Len(r.trace) /\ r.trace[k] = d.PreHandlers[k].Handler.fn)
                    /\ \A k \in DOMAIN d.PostHandlers :
                          d.PostHandlers[k].Method = ""
                          => (k <= Len(r.postTrace)
                              /\ r.postTrace[k] = d.PostHandlers[k].Handler.fn)

\* C8: RegisterHandlerDef of a def with the empty method leaves the route table as
\* it was, returns normally and records the def under ":" + Path; and the handler of
\* such a def runs in every request served by a route whose def lists it as a pre- or
\* post-handler.
C8_MiddlewareOnly ==
    [][/\ (Called("RegisterHandlerDef") /\ lastCall'.arg[1].Method = "")
          => /\ methodRouters' = methodRouters
             /\ lastCall'.result = "nil"
             /\ (":" \o lastCall'.arg[1].Path) \in DOMAIN HandlerDef'
             /\ HandlerDef'[":" \o lastCall'.arg[1].Path] = lastCall'.arg[1]
       /\ MiddlewareRan']_vars

C8_Witness ==
    /\ ":" \in DOMAIN HandlerDef
    /\ HandlerDef[":"] = auth
    /\ \A m \in DOMAIN methodRouters : \A n \in 1..Len(methodRouters[m]) :
          methodRouters[m][n].path # ""
    /\ \E g \in Goroutines :
          /\ reqs[g].pc = "done"
          /\ reqs[g].at = 2
          /\ reqs[g].trace = <<"auth", "throttle", "target">>

\* C9: RegisterHandlerDef adds a route for the def's (method, path) exactly when the
\* method is one of GET, POST, PUT, DELETE, PATCH, HEAD, OPTIONS; with the empty
\* method or one of these it returns normally; with any other method it panics and
\* changes neither the route table nor the HandlerDef map.
C9_RoutedMethods ==
    [][Called("RegisterHandlerDef")
       => LET h == lastCall'.arg[1]
          IN /\ (RouteCount(methodRouters', h.Method, h.Path)
                   = RouteCount(methodRouters, h.Method, h.Path) + 1)
                <=> (h.Method \in HttpVerbs)
             /\ (h.Method \in HttpVerbs \cup {""}) => lastCall'.result = "nil"
             /\ (h.Method \notin HttpVerbs \cup {""})
                => /\ lastCall'.result = "panic"
                   /\ methodRouters' = methodRouters
                   /\ HandlerDef' = HandlerDef]_vars

C9_Witness ==
    /\ lastCall.op = "RegisterHandlerDef"
    /\ lastCall.arg[1].Method = "TRACE"
    /\ lastCall.result = "panic"
    /\ RouteCount(methodRouters, "PATCH", "/x") = 1
    /\ RouteCount(methodRouters, "OPTIONS", "/x") = 1
    /\ DOMAIN HandlerDef = {"PATCH:/x", "OPTIONS:/x"}

\* the state RegisterHandlerDefs must leave when it has registered exactly the defs
\* of done, in order, on top of the route table and HandlerDef map of before
RegisteredOnTop(done) ==
    /\ \A m \in DOMAIN methodRouters' \cup DOMAIN methodRouters \cup HttpVerbs :
          \A p \in {done[k].Path : k \in DOMAIN done} \cup {"/x"} :
             RouteCount(methodRouters', m, p)
               = RouteCount(methodRouters, m, p)
                 + Cardinality({k \in DOMAIN done :
                                   /\ done[k].Method = m
                                   /\ done[k].Path = p
                                   /\ m \in HttpVerbs})
    /\ DOMAIN HandlerDef'
         = DOMAIN HandlerDef \cup {Key(done[k].Method, done[k].Path) : k \in DOMAIN done}
    /\ \A key \in DOMAIN HandlerDef' :
          IF \E k \in DOMAIN done : Key(done[k].Method, done[k].Path) = key
          THEN \E k \in DOMAIN done :
                  /\ Key(done[k].Method, done[k].Path) = key
                  /\ HandlerDef'[key] = done[k]
                  /\ \A j \in DOMAIN done :
                        Key(done[j].Method, done[j].Path) = key => j <= k
          ELSE HandlerDef'[key] = HandlerDef[key]

\* C10: RegisterHandlerDefs registers the defs in input order up to, and not
\* including, the first def whose method is neither empty nor an HTTP verb: it panics
\* there, the earlier defs stay registered and that def and the later ones are not
\* registered; with no such def it registers them all and returns nil.
C10_NoRollback ==
    [][Called("RegisterHandlerDefs")
       => LET hs == lastCall'.arg
              bad == {k \in DOMAIN hs : hs[k].Method \notin HttpVerbs \cup {""}}
          IN IF bad = {}
             THEN lastCall'.result = "nil" /\ RegisteredOnTop(hs)
             ELSE LET first == CHOOSE k \in bad : \A j \in bad : k <= j
                  IN /\ lastCall'.result = "panic"
                     /\ RegisteredOnTop(SubSeq(hs, 1, first - 1))]_vars

C10_Witness ==
    /\ lastCall.op = "RegisterHandlerDefs"
    /\ lastCall.result = "panic"
    /\ Len(lastCall.arg) = 3
    /\ lastCall.arg[1].Method = "PUT"
    /\ lastCall.arg[2].Method = "TRACE"
    /\ lastCall.arg[3].Method = "DELETE"
    /\ DOMAIN HandlerDef = {"PUT:/x"}
    /\ RouteCount(methodRouters, "PUT", "/x") = 1
    /\ RouteCount(methodRouters, "DELETE", "/x") = 0

----------------------------------------------------------------------------
(* The HandlerDef map after registrations on a fresh server *)

\* defs handed to registration calls in one run of the registry specification
MaxRegistryDefs == 3

\* registry specification: the defs of the webserver tests (apiHandlerDef,
\* pageHandlerDef, authHandlerDef) and their POST and middleware-only siblings
DefsRegistry ==
    {Def(m, p, UserHandler("target"), <<>>, <<>>, NoHeaders) :
        m \in {GET, POST, ""}, p \in {"/api/sample", "/"}}

NextRegistry ==
    \/ RegisterHandlerDefCall(DefsRegistry, MaxRegistryDefs)
    \/ RegisterHandlerDefsCall(DefsRegistry, MaxRegistryDefs)

SpecRegistry == Init /\ [][NextRegistry]_vars

\* the defs registered so far have pairwise distinct (Method, Path)
DistinctRoutes ==
    \A j, k \in DOMAIN regLog :
        (regLog[j].Method = regLog[k].Method /\ regLog[j].Path = regLog[k].Path) => j = k

\* C11: on a fresh server, after registering defs with pairwise distinct
\* (Method, Path), the HandlerDef map has exactly one entry per registered def, under
\* the key Method + ":" + Path, and no other key.
C11_OneEntryPerDef ==
    DistinctRoutes
    => /\ Cardinality(DOMAIN HandlerDef) = Len(regLog)
       /\ DOMAIN HandlerDef = {regLog[k].Method \o ":" \o regLog[k].Path : k \in DOMAIN regLog}
       /\ \A k \in DOMAIN regLog :
             HandlerDef[regLog[k].Method \o ":" \o regLog[k].Path] = regLog[k]

C11_Witness ==
    /\ lastCall.op = "RegisterHandlerDefs"
    /\ Len(lastCall.arg) = 2
    /\ Len(regLog) = 2
    /\ DOMAIN HandlerDef = {"GET:/api/sample", "GET:/"}
    /\ "POST:/api/sample" \notin DOMAIN HandlerDef

----------------------------------------------------------------------------
(* Requests no route matches, static files and the 404 template *)

\* defs handed to registration calls in one run of the not-found specification
MaxNotFoundDefs == 1

\* the routes of the example application: the bare endpoint, and the page
\* behind auth and followed by audit
DefsNotFound ==
    {Def(GET, "/api/sample", UserHandler("ExampleGet"), <<>>, <<>>, NoHeaders),
     Def(GET, "/", UserHandler("ExampleWebpage"), <<auth>>, <<audit>>, NoHeaders)}

RequestsNotFound ==
    {<<GET, "/api/sample">>, <<GET, "/">>, <<GET, "/nowhere">>, <<GET, "/static/app.css">>,
     <<GET, "/static/img">>, <<GET, "/static/none.css">>}

\* the file Settings.SystemTemplates["onMissingHandler"] is rendered from
MissingTemplateFile == "web-src/html/errors/onMissingHandler.html"

\* the urls FILES is called with: without and with the leading "/"
StaticUrls == {"static", "/static"}

\* registration, FILES, concurrent requests, and changes of the 404 template file
NextNotFound ==
    \/ RegisterHandlerDefCall(DefsNotFound, MaxNotFoundDefs)
    \/ \E url \in StaticUrls : FILES(url, "public")
    \/ \E kind \in {NoFile, GoodTemplate, FailingTemplate} :
          WriteTemplate(MissingTemplateFile, kind)
    \/ \E g \in Goroutines :
          \/ \E q \in RequestsNotFound : ServeHTTP(g, q[1], q[2])
          \/ onMissingHandlerSeek(g)
          \/ onMissingHandlerTemplate(g)
          \/ onMissingHandlerDefault(g)
          \/ ServeFile(g)
          \/ InvokeHandler(g)
          \/ EndChain(g)
          \/ InvokePostHandler(g)
          \/ Return(g)
          \/ Release(g)

SpecNotFound == Init /\ [][NextNotFound]_vars

\* C12: every request that matches no registered route is answered by
\* onMissingHandler with status 404, and with the body of the configured template
\* or, once a rendering has failed, the static defaultResponse404.
C12_UnmatchedGetsOnMissingHandler ==
    \A g \in Goroutines :
        (reqs[g].pc = "done" /\ ~reqs[g].matched /\ ~reqs[g].static)
        => /\ reqs[g].event.sentStatus = 404
           /\ reqs[g].event.body \in {TemplateOutput, defaultResponse404}

\* goroutine g leaves onMissingHandler in this step
LeavesOnMissingHandler(g) == reqs[g].pc = "default" /\ reqs'[g].pc # "default"

\* the rendering of the configured template fails for goroutine g in this step
RenderingFails(g) ==
    reqs[g].pc = "HTMLTemplate" /\ reqs'[g].pc = "default" /\ reqs'[g].err # "nil"

\* C13: seekOnMissingHandler is one-shot and process-wide: true until a rendering
\* of the configured template fails, false from that failure on; the request whose
\* rendering failed gets the static default body, and every onMissingHandler
\* invocation that starts after the failure writes the static default body without
\* rendering the template.
C13_OneShotLatch ==
    [][/\ (seekOnMissingHandler \/ logger # <<>>)
       /\ (~seekOnMissingHandler => ~seekOnMissingHandler')
       /\ (seekOnMissingHandler /\ ~seekOnMissingHandler' => \E g \in Goroutines : RenderingFails(g))
       /\ \A g \in Goroutines :
             /\ (RenderingFails(g) => ~seekOnMissingHandler')
             /\ (LeavesOnMissingHandler(g) /\ reqs[g].err # "nil"
                    => reqs'[g].event.body = defaultResponse404)
             /\ (LeavesOnMissingHandler(g) /\ reqs[g].latched
                    => /\ ~reqs[g].rendered
                       /\ reqs'[g].event.body = defaultResponse404)]_vars

\* a failure happened, the template file has been repaired since, and a later
\* not-found request still got the default body without a rendering
C13_Witness ==
    /\ ~seekOnMissingHandler
    /\ Len(logger) = 1
    /\ disk[MissingTemplateFile] = GoodTemplate
    /\ \E g \in Goroutines :
          /\ reqs[g].pc = "done"
          /\ reqs[g].latched
          /\ ~reqs[g].rendered
          /\ reqs[g].event.sentStatus = 404
          /\ reqs[g].event.body = defaultResponse404

\* C14: under any interleaving of concurrent not-found requests the failure to
\* load the configured template is attempted and logged at most once.
C14_SingleAttempt == Len(logger) <= 1

----------------------------------------------------------------------------
(* The response Output.Body builds *)

\* the requests whose response was written by Output.Body alone: the route
\* closures that ran (the handlers of the not-found specification call ctx.HTML)
WrittenByBody(g) == reqs[g].matched /\ reqs[g].event.wroteHeader

\* C15: Output.Body(content) puts the Content-Length header, equal to the byte
\* length of content, and every header set before through Output.Header on the
\* response before the status and headers are committed and before any body byte
\* is written.
C15_HeadersBeforeCommit ==
    \A g \in Goroutines :
        WrittenByBody(g)
        => LET e == reqs[g].event
           IN /\ DOMAIN e.sentHeader = DOMAIN e.header
              /\ "Content-Length" \in DOMAIN e.sentHeader
              /\ e.sentHeader["Content-Length"] = Itoa(Len(e.body))

----------------------------------------------------------------------------
(* Concurrent registration and dispatch *)

\* defs handed to registration calls in one run of the concurrent specification
MaxConcurrentDefs == 2

DefsConcurrent ==
    {Def(m, p, UserHandler("target"), <<>>, <<>>, NoHeaders) :
        m \in {POST}, p \in {"/a", "/b"}}
    \cup {Def(GET, "/a", UserHandler("target"), <<>>, <<audit>>, NoHeaders), auth}

RequestsConcurrent == {<<POST, "/a">>, <<POST, "/b">>, <<GET, "/a">>}

\* RegisterHandlerDef calls by concurrent goroutines, statement by statement,
\* and requests served meanwhile
NextConcurrent ==
    \E g \in Goroutines :
        \/ \E h \in DefsConcurrent : RegisterBegin(g, h, MaxConcurrentDefs)
        \/ HandleLookup(g)
        \/ HandleStore(g)
        \/ LockHandlerDef(g)
        \/ StoreHandlerDef(g)
        \/ \E q \in RequestsConcurrent : ServeHTTP(g, q[1], q[2])
        \/ InvokeHandler(g)
        \/ EndChain(g)
        \/ InvokePostHandler(g)
        \/ Return(g)
        \/ Release(g)

SpecConcurrent == Init /\ [][NextConcurrent]_vars

\* C17: every write to the route table (the per-method router map and the
\* routers' route lists) is made while the server's lock is held.
C17_RouteTableWritesLocked ==
    [][methodRouters' # methodRouters => handlerDefMutex # Free]_vars

----------------------------------------------------------------------------
(* One context per request *)

\* defs handed to registration calls in one run of the context specification
MaxContextDefs == 2

\* the two example endpoints, each behind auth and followed by audit
DefsContext ==
    {Def(GET, "/api/sample", UserHandler("ExampleGet"), <<auth>>, <<audit>>, NoHeaders),
     Def(GET, "/", UserHandler("ExampleWebpage"), <<auth>>, <<audit>>, NoHeaders)}

RequestsContext == {<<GET, "/api/sample">>, <<GET, "/">>}

\* registration, and requests served by concurrent goroutines
NextContext ==
    \/ RegisterHandlerDefCall(DefsContext, MaxContextDefs)
    \/ \E g \in Goroutines :
          \/ \E q \in RequestsContext : ServeHTTP(g, q[1], q[2])
          \/ InvokeHandler(g)
          \/ EndChain(g)
          \/ InvokePostHandler(g)
          \/ Return(g)
          \/ Release(g)

SpecContext == Init /\ [][NextContext]_vars

\* the context a new context becomes when the handlers hs run on it, in order
RECURSIVE ContextAfter(_)
ContextAfter(hs) ==
    IF hs = <<>> THEN NewContext
    ELSE RunHandler(hs[Len(hs)], ContextAfter(SubSeq(hs, 1, Len(hs) - 1)))

\* the handlers of request r that have run, in the order they ran
Ran(r) == SubSeq(r.handlers, 1, Len(r.trace)) \o SubSeq(r.postHandlers, 1, Len(r.postTrace))

\* C18: each dispatched request gets a new Context of its own: whatever the
\* interleaving of concurrent requests, each handler is given exactly the context
\* that the earlier handlers of its own request made out of a new one, so it sees
\* their mutations and none of another request's.
C18_ContextPerRequest ==
    \A g \in Goroutines :
        reqs[g].matched
        => LET r == reqs[g]
           IN /\ Len(r.seen) = Len(Ran(r))
              /\ \A k \in 1..Len(r.seen) :
                    r.seen[k] = ContextAfter(SubSeq(Ran(r), 1, k - 1))
              /\ r.event = ContextAfter(Ran(r))

\* two requests to the same route in flight: one has written its response and its
\* post-handler has seen it, the other's first handler was given a new context
C18_Witness ==
    LET a == reqs["g1"]
        b == reqs["g2"]
    IN /\ a.matched /\ b.matched /\ a.path = b.path
       /\ a.postTrace = <<"audit">>
       /\ a.seen[3].body = "Listing stuff"
       /\ a.seen[3].sentHeader # NoHeaders
       /\ b.pc = "chain" /\ b.trace = <<"auth">>
       /\ b.seen[1] = NewContext
       /\ b.event = NewContext

----------------------------------------------------------------------------
(* The template registry *)

Views == {"errors/onMissingHandler", "index"}

TemplateKinds == {NoFile, GoodTemplate, FailingTemplate}

\* renderings by concurrent goroutines, while template files come, change and go
\* and the application switches caching
NextRender ==
    \/ \E g \in Goroutines :
          \/ \E view \in Views : HTMLTemplateCall(g, view)
          \/ Release(g)
    \/ \E view \in Views, kind \in TemplateKinds :
          WriteTemplate(TemplateDirectory \o view \o ".html", kind)
    \/ \E b \in BOOLEAN : SetCacheTemplates(b)

SpecRender == Init /\ [][NextRender]_vars

\* goroutine g renders in this step
Renders(g) == reqs[g].pc = "idle" /\ reqs'[g].pc = "done" /\ reqs'[g].rendered

\* what executing template t yields
Executes(t) == IF t = GoodTemplate THEN "nil" ELSE "execute"

----------------------------------------------------------------------------
(* Panicking handlers *)

\* defs handed to registration calls in one run of the panic specification
MaxPanicDefs == 2

boom == MiddlewareDef("boom")

\* a panicking target, a panicking pre-handler, a panicking post-handler, and
\* the example endpoint
DefsPanic ==
    {Def(GET, "/p", UserHandler("boom"), <<auth>>, <<audit>>, NoHeaders),
     Def(GET, "/q", UserHandler("target"), <<boom>>, <<audit>>, NoHeaders),
     Def(GET, "/r", UserHandler("target"), <<auth>>, <<boom, audit>>, NoHeaders),
     Def(GET, "/api/sample", UserHandler("ExampleGet"), <<auth>>, <<audit>>, NoHeaders)}

RequestsPanic == {<<GET, "/p">>, <<GET, "/q">>, <<GET, "/r">>, <<GET, "/api/sample">>}

NextPanic ==
    \/ RegisterHandlerDefCall(DefsPanic, MaxPanicDefs)
    \/ \E g \in Goroutines :
          \/ \E q \in RequestsPanic : ServeHTTP(g, q[1], q[2])
          \/ InvokeHandler(g)
          \/ EndChain(g)
          \/ InvokePostHandler(g)
          \/ Return(g)
          \/ Release(g)
          \/ Abort(g)

SpecPanic == Init /\ [][NextPanic]_vars

\* goroutine g calls a handler in this step
CallsHandler(g) ==
    \/ Len(reqs'[g].trace) > Len(reqs[g].trace)
    \/ Len(reqs'[g].postTrace) > Len(reqs[g].postTrace)

\* the handler goroutine g calls in this step
CalledHandler(g) ==
    IF reqs[g].pc = "chain" THEN reqs[g].handlers[reqs[g].i]
    ELSE reqs[g].postHandlers[reqs[g].i]

\* C20: the dispatcher does not recover a panicking handler: the panic leaves the
\* route closure, no later handler or post-handler of that request runs, the route
\* table and the HandlerDef map stay as they are, and requests are dispatched as
\* before.
C20_PanicPropagates ==
    [][\A g \in Goroutines :
          /\ (CallsHandler(g) /\ CalledHandler(g).fn \in Panickers
                 => /\ reqs'[g].pc = "panicked"
                    /\ UNCHANGED <<methodRouters, HandlerDef>>)
          /\ (reqs[g].pc = "panicked"
                 => /\ ~CallsHandler(g)
                    /\ reqs'[g].pc \in {"panicked", "idle"})
          /\ (reqs[g].pc = "panicked" /\ reqs'[g].pc = "idle"
                 => UNCHANGED <<methodRouters, HandlerDef>>)
          /\ (reqs[g].pc = "idle" /\ reqs'[g].pc # "idle"
                 => LET n == Match(methodRouters[GET], reqs'[g].method, reqs'[g].path)
                    IN IF n = 0 THEN reqs'[g].pc = "done" /\ ~reqs'[g].matched
                       ELSE /\ reqs'[g].pc = "chain"
                            /\ reqs'[g].handlers = methodRouters[GET][n].handlers
                            /\ reqs'[g].postHandlers = methodRouters[GET][n].postHandlers
                            /\ reqs'[g].event = NewContext)
          /\ (reqs'[g].pc = "done" /\ reqs[g].pc # "done" /\ reqs'[g].matched
                 => /\ \A k \in DOMAIN reqs'[g].trace : reqs'[g].trace[k] \notin Panickers
                    /\ \A k \in DOMAIN reqs'[g].postTrace :
                          reqs'[g].postTrace[k] \notin Panickers)]_vars

\* a pre-handler panicked: target and post-handler did not run; meanwhile the
\* other goroutine served the example endpoint completely
C20_Witness ==
    /\ reqs["g1"].pc = "panicked"
    /\ reqs["g1"].trace = <<"boom">>
    /\ Len(reqs["g1"].handlers) = 2
    /\ reqs["g1"].postHandlers # <<>>
    /\ reqs["g1"].postTrace = <<>>
    /\ reqs["g2"].pc = "done"
    /\ reqs["g2"].trace = <<"auth", "ExampleGet">>
    /\ reqs["g2"].postTrace = <<"audit">>
    /\ reqs["g2"].event.body = "Listing stuff"
    /\ DOMAIN HandlerDef = {"GET:/q", "GET:/api/sample"}

----------------------------------------------------------------------------
(* The logger package *)

\* calls made on the Log in one run of the logger specification
MaxLogCalls == 2

\* the logrus levels, from the most severe to the most verbose
LevelOrder == <<"panic", "fatal", "error", "warn", "info", "debug">>

LevelIndex(level) == CHOOSE k \in DOMAIN LevelOrder : LevelOrder[k] = level

\* logrus.ParseLevel: the level a string names, or "invalid"
ParseLevel(str) ==
    IF str = "warning" THEN "warn"
    ELSE IF \E k \in DOMAIN LevelOrder : LevelOrder[k] = str THEN str
    ELSE "invalid"

ErrLogLogglySetup == "ErrLogLogglySetup"
ErrLogInvalidLevel == "ErrLogInvalidLevel"
ErrLogInvalidPath == "ErrLogInvalidPath"
ErrLogInvalidType == "ErrLogInvalidType"

\* the types of Settings.Output that New accepts
OutputTypes == {"LogglySettings", "Stderr", "Stdout", "Disk"}

\* a call of New that returned an error
FailedLog(err) == [built |-> "failed", err |-> err]

\* logger.New(settings); opens tells whether os.OpenFile succeeds on a Disk path
LoggerNew(settings, opens) ==
    LET v == settings.Output
        override == v.Level # "" /\ v.Level # "debug"
        level == IF override THEN ParseLevel(v.Level) ELSE "debug"
        formatter == IF v.type \in {"LogglySettings", "Disk"} THEN "json"
                     ELSE IF v.Format = "json" THEN "json" ELSE "text"
    IN IF v.type \notin OutputTypes THEN FailedLog(ErrLogInvalidType)
       ELSE IF v.type = "LogglySettings" /\ v.Token = "" /\ v.Domain = ""
       THEN FailedLog(ErrLogLogglySetup)
       ELSE IF v.type = "Disk" /\ (v.Path = "" \/ ~opens) THEN FailedLog(ErrLogInvalidPath)
       ELSE IF level = "invalid"
       THEN FailedLog(IF v.type = "Disk" THEN "not a valid logrus Level"
                      ELSE ErrLogInvalidLevel)
       ELSE [built |-> "New(settings)", level |-> level, formatter |-> formatter,
             debug |-> (level = "debug"), info |-> (level \in {"debug", "info"}),
             isLoggly |-> (v.type = "LogglySettings"), exited |-> FALSE]

\* New(debug, info, format) of the flag-based draft
LoggerNewFlags(debug, info, format) ==
    [built |-> "New(debug, info, format)", level |-> "debug",
     formatter |-> IF format = "text" THEN "text" ELSE "json",
     debug |-> debug, info |-> info, isLoggly |-> FALSE, exited |-> FALSE]

LogMethods ==
    {"Debug", "Debugf", "Info", "Infof", "Warn", "Warnf", "Error", "Errorf", "Fatal", "Fatalf"}

\* the logrus level a method logs at
MethodLevel(m) ==
    IF m \in {"Debug", "Debugf"} THEN "debug"
    ELSE IF m \in {"Info", "Infof"} THEN "info"
    ELSE IF m \in {"Warn", "Warnf"} THEN "warn"
    ELSE IF m \in {"Error", "Errorf"} THEN "error"
    ELSE "fatal"

\* logrus.Logger: an entry is written when the logger's Level is at least the
\* entry's level
LogrusWrites(l, level) == LevelIndex(l.level) >= LevelIndex(level)

\* Log.Debug ... Log.Fatalf: whether the call writes an entry
LogEmits(l, m) ==
    IF m \in {"Debug", "Debugf"} THEN l.debug /\ LogrusWrites(l, "debug")
    ELSE IF m = "Info" THEN l.info /\ LogrusWrites(l, "info")
    ELSE LogrusWrites(l, MethodLevel(m))

\* Context.Debug ... Context.Fatalf: whether the call writes an entry
ContextEmits(l, m) == LogrusWrites(l, MethodLevel(m))

\* the application builds its Log with New(settings)
LoggerNewCall(settings, opens) ==
    /\ Log = NoLog
    /\ Log' = LoggerNew(settings, opens)
    /\ UNCHANGED <<methodRouters, HandlerDef, reqs, lastCall, regLog, used, Settings,
                   seekOnMissingHandler, tr, disk, logger, registering, logCalls,
                   rendering>>

\* the application builds its Log with New(debug, info, format)
LoggerNewFlagsCall(debug, info, format) ==
    /\ Log = NoLog
    /\ Log' = LoggerNewFlags(debug, info, format)
    /\ UNCHANGED <<methodRouters, HandlerDef, reqs, lastCall, regLog, used, Settings,
                   seekOnMissingHandler, tr, disk, logger, registering, logCalls,
                   rendering>>

\* a method called on the Log, or on the Context that Log.Context returned;
\* logrus ends the process after a Fatal entry
LogCall(via, m, max) ==
    /\ Log.built \in {"New(settings)", "New(debug, info, format)"}
    /\ ~Log.exited
    /\ Len(logCalls) < max
    /\ logCalls' = Append(logCalls,
          [via |-> via, method |-> m,
           emitted |-> IF via = "Log" THEN LogEmits(Log, m) ELSE ContextEmits(Log, m),
           caller |-> (via = "Log" /\ Log.debug)])
    /\ Log' = [Log EXCEPT !.exited = (m \in {"Fatal", "Fatalf"})]
    /\ UNCHANGED <<methodRouters, HandlerDef, reqs, lastCall, regLog, used, Settings,
                   seekOnMissingHandler, tr, disk, logger, registering,
                   rendering>>

\* the values of Settings.Output: the outputs of the tests with each level, an
\* unset level, a level logrus does not know, a Loggly output without token and
\* domain, a Disk output without path, and a value of another type
LoggerSettings ==
    {[Output |-> [type |-> t, Level |-> l, Format |-> f, Path |-> "output.log",
                  Token |-> "gibberish", Domain |-> "web-rat.com"]] :
        t \in {"Stdout", "Stderr", "Disk", "LogglySettings"},
        l \in {"", "panic", "fatal", "error", "warn", "warning", "info", "debug", "verbose"},
        f \in {"", "json"}}
    \cup {[Output |-> [type |-> "LogglySettings", Level |-> "panic", Format |-> "",
                       Path |-> "", Token |-> "", Domain |-> ""]],
          [Output |-> [type |-> "Disk", Level |-> "panic", Format |-> "",
                       Path |-> "", Token |-> "", Domain |-> ""]],
          [Output |-> [type |-> "string", Level |-> "", Format |-> "",
                       Path |-> "", Token |-> "", Domain |-> ""]]}

NextLogger ==
    \/ \E settings \in LoggerSettings, opens \in BOOLEAN : LoggerNewCall(settings, opens)
    \/ \E debug \in BOOLEAN, info \in BOOLEAN, format \in {"text", "json", ""} :
          LoggerNewFlagsCall(debug, info, format)
    \/ \E m \in LogMethods : LogCall("Log", m, MaxLogCalls)
    \/ \E m \in LogMethods : LogCall("Context", m, MaxLogCalls)

SpecLogger == Init /\ [][NextLogger]_vars

\* C21: on a Log built by New(settings), every call of Warn, Warnf, Error, Errorf,
\* Fatal or Fatalf emits a message, whatever the configured level.
C21_WarnErrorFatalAlwaysLogged ==
    Log.built = "New(settings)"
    => \A k \in DOMAIN logCalls :
          (logCalls[k].via = "Log"
              /\ logCalls[k].method \in {"Warn", "Warnf", "Error", "Errorf", "Fatal", "Fatalf"})
          => logCalls[k].emitted

\* C22: on a Log built by New(debug, info, format), no call of Info or Infof emits
\* a message when info is false, and no call of Debug or Debugf emits one when
\* debug is false, on the Log itself and on a ContextualLogger of Log.Context.
C22_FlagsDisableDebugAndInfo ==
    Log.built = "New(debug, info, format)"
    => \A k \in DOMAIN logCalls :
          /\ (~Log.info /\ logCalls[k].method \in {"Info", "Infof"} => ~logCalls[k].emitted)
          /\ (~Log.debug /\ logCalls[k].method \in {"Debug", "Debugf"} => ~logCalls[k].emitted)

\* ---------------------------------------------------------------------------
\* Static file serving: the switch and the mapping

\* ServeHTTP accepts a request of goroutine g in this step
Accepts(g) == reqs[g].pc = "idle" /\ reqs'[g].pc # "idle"

\* the step changes the static file settings
StaticSettingsChange ==
    \/ Settings'.EnableStaticFileServer # Settings.EnableStaticFileServer
    \/ Settings'.staticDir # Settings.staticDir

C23_Initially ==
    /\ ~Settings.EnableStaticFileServer
    /\ DOMAIN Settings.staticDir = {}

C23_Step ==
    /\ StaticSettingsChange =>
          /\ \E url \in StaticUrls : FILES(url, "public")
          /\ Settings'.EnableStaticFileServer
          /\ \A k \in DOMAIN Settings'.staticDir : HasPrefix(k, "/")
    /\ Settings.EnableStaticFileServer => Settings'.EnableStaticFileServer
    /\ \A g \in Goroutines :
          Accepts(g) /\ ~Settings.EnableStaticFileServer =>
             /\ ~reqs'[g].static
             /\ reqs'[g].pc \in {"chain", "done"}
             /\ reqs'[g].matched =
                   (Match(methodRouters[reqs'[g].method], reqs'[g].method,
                          reqs'[g].path) # 0)

\* C23: static file serving is off and unmapped initially, is switched on only
\* by FILES, which stores the mapping under the url with a leading "/", is never
\* switched off again, and while it is off ServeHTTP hands every request to the
\* router.
C23_StaticServingOnlyByFILES == C23_Initially /\ [][C23_Step]_vars

\* FILES has mapped "/static", one request under it was answered from the static
\* branch and another, accepted before, went through the router
C23_Witness ==
    /\ Settings.EnableStaticFileServer
    /\ DOMAIN Settings.staticDir = {"/static"}
    /\ reqs["g1"].static /\ reqs["g1"].pc = "done"
    /\ reqs["g2"].path = "/static/app.css" /\ ~reqs["g2"].static
    /\ reqs["g2"].pc = "done"

\* ---------------------------------------------------------------------------
\* render.executeTemplate statement by statement, called by concurrent requests

Stepping == <<methodRouters, HandlerDef, lastCall, regLog, used, Settings,
              seekOnMissingHandler, disk, logger, registering, logging>>

\* Render(view) calls executeTemplate(file), which takes the read lock
executeTemplateRLock(g, view) ==
    /\ reqs[g].pc = "idle"
    /\ trLock.writer = Free
    /\ trLock' = [trLock EXCEPT !.readers = @ \cup {g}]
    /\ reqs' = [reqs EXCEPT ![g] =
          [Idle EXCEPT !.pc = "lookup",
                       !.filePath = Settings.Render.TemplateDirectory \o view \o ".html"]]
    /\ UNCHANGED <<Stepping, tr, parses>>

\* t, present := tr.templates[file]; tr.RUnlock()
executeTemplateLookup(g) ==
    LET r == reqs[g]
        present == r.filePath \in DOMAIN tr
    IN /\ r.pc = "lookup"
       /\ reqs' = [reqs EXCEPT ![g] =
             [r EXCEPT !.present = present,
                       !.t = IF present THEN tr[r.filePath] ELSE NoFile,
                       !.pc = IF present THEN "Execute" ELSE "ParseFiles"]]
       /\ trLock' = [trLock EXCEPT !.readers = @ \ {g}]
       /\ UNCHANGED <<Stepping, tr, parses>>

\* if !present: t.ParseFiles(file), returning on its error
executeTemplateParseFiles(g) ==
    LET r == reqs[g]
        info == Stat(disk, r.filePath)
        ok == info \in {GoodTemplate, FailingTemplate}
    IN /\ r.pc = "ParseFiles"
       /\ parses' = [parses EXCEPT ![r.filePath] = @ + 1]
       /\ reqs' = [reqs EXCEPT ![g] =
             [r EXCEPT !.parsed = TRUE,
                       !.t = IF ok THEN info ELSE NoFile,
                       !.err = IF ok THEN "nil" ELSE "parse",
                       !.rendered = ~ok,
                       !.pc = IF ~ok THEN "done"
                              ELSE IF Settings.Render.CacheTemplates THEN "Lock"
                              ELSE "Execute"]]
       /\ UNCHANGED <<Stepping, tr, trLock>>

\* if Settings.CacheTemplates: tr.Lock()
executeTemplateLock(g) ==
    /\ reqs[g].pc = "Lock"
    /\ trLock = Unlocked
    /\ trLock' = [trLock EXCEPT !.writer = g]
    /\ reqs' = [reqs EXCEPT ![g].pc = "store"]
    /\ UNCHANGED <<Stepping, tr, parses>>

\* tr.templates[file] = t; tr.Unlock()
executeTemplateStore(g) ==
    LET r == reqs[g]
    IN /\ r.pc = "store"
       /\ tr' = [f \in DOMAIN tr \cup {r.filePath} |->
                   IF f = r.filePath THEN r.t ELSE tr[f]]
       /\ trLock' = [trLock EXCEPT !.writer = Free]
       /\ reqs' = [reqs EXCEPT ![g].pc = "Execute"]
       /\ UNCHANGED <<Stepping, parses>>

\* t.Execute(&buf, data) and the return
executeTemplateExecute(g) ==
    LET r == reqs[g]
    IN /\ r.pc = "Execute"
       /\ reqs' = [reqs EXCEPT ![g] =
             [r EXCEPT !.err = IF r.t = FailingTemplate THEN "execute" ELSE "nil",
                       !.rendered = TRUE, !.pc = "done"]]
       /\ UNCHANGED <<Stepping, tr, rendering>>

\* concurrent renderings of the views, with CacheTemplates at its default, true
NextParse ==
    \E g \in Goroutines :
       \/ \E view \in Views : executeTemplateRLock(g, view)
       \/ executeTemplateLookup(g)
       \/ executeTemplateParseFiles(g)
       \/ executeTemplateLock(g)
       \/ executeTemplateStore(g)
       \/ executeTemplateExecute(g)
       \/ Release(g)

SpecParse == Init /\ [][NextParse]_vars

\* the registry map is read and written only under the registry's lock
C24_RegistryAccessLocked ==
    /\ \A g \in Goroutines : reqs[g].pc = "lookup" => g \in trLock.readers
    /\ \A g \in Goroutines : reqs[g].pc = "store" => trLock.writer = g
    /\ trLock.writer # Free => trLock.readers = {}

\* C24: with caching enabled a template file is parsed at most once per
\* application instance, whatever the interleaving of the requests that render
\* it, and the registry map is read and written only under its lock.
C24_ParsedOncePerInstance ==
    /\ Settings.Render.CacheTemplates => \A f \in DOMAIN parses : parses[f] <= 1
    /\ C24_RegistryAccessLocked

\* ---------------------------------------------------------------------------
\* The earlier draft of the registration functions (handlerdef.go)

\* the five assignments "o.Get = strings.ToUpper(hd.Method) == "GET"" ...
AssignMethod(o, method) ==
    LET u == ToUpper(method)
    IN [o EXCEPT !.get = (u = "GET"), !.post = (u = "POST"), !.put = (u = "PUT"),
                 !.delete = (u = "DELETE"), !.head = (u = "HEAD")]

\* the draft's first loop: methods and headers per path, returning at the first
\* header error
RECURSIVE CollectOptionsDraft(_, _, _)
CollectOptionsDraft(h, optionsMap, defaultHeaders) ==
    IF h = <<>> THEN [err |-> "nil", optionsMap |-> optionsMap]
    ELSE
      LET hd == Head(h)
          pathExists == hd.Path \in DOMAIN optionsMap
          om == IF pathExists THEN optionsMap
                ELSE [p \in DOMAIN optionsMap \cup {hd.Path} |->
                         IF p = hd.Path THEN NoOptions ELSE optionsMap[p]]
          hs == IF pathExists THEN defaultHeaders
                ELSE [p \in DOMAIN defaultHeaders \cup {hd.Path} |->
                         IF p = hd.Path THEN hd.RequestHeaders ELSE defaultHeaders[p]]
          o  == AssignMethod(om[hd.Path], hd.Method)
      IN IF MapLen(hd.RequestHeaders) # MapLen(hs[hd.Path])
         THEN [err |-> ErrWebserverRequestHeaderCountWrong, optionsMap |-> om]
         ELSE IF MapLen(hd.RequestHeaders) > 0
                 /\ HeaderValueDiffers(hs[hd.Path], hd.RequestHeaders)
         THEN [err |-> ErrWebserverRequestHeaderMismatch, optionsMap |-> om]
         ELSE LET o2 == IF MapLen(hd.RequestHeaders) > 0
                        THEN [o EXCEPT !.RequestHeaders = hd.RequestHeaders]
                        ELSE o
              IN CollectOptionsDraft(Tail(h), [om EXCEPT ![hd.Path] = o2], hs)

\* the draft's RegisterHandlerDef: one chain of pre-handlers, target and
\* post-handlers; PATCH is not among the routed methods
RegisterHandlerDefDraft(s, h) ==
    LET routed == h.Method \in {"HEAD", "GET", "PUT", "DELETE", "OPTIONS", "POST"}
        chain == BuildChain(h) \o BuildPostChain(h)
        key == h.Method \o ":" \o h.Path
    IN IF ~routed /\ h.Method # ""
       THEN [s EXCEPT !.panic = TRUE]
       ELSE [routers |-> IF routed
                         THEN Handle(s.routers, h.Method, h.Path, chain, <<>>)
                         ELSE s.routers,
             defs    |-> [k \in DOMAIN s.defs \cup {key} |->
                             IF k = key THEN h ELSE s.defs[k]],
             log     |-> Append(s.log, h),
             panic   |-> FALSE]

\* the draft's last loop: each def in order; a panic ends the loop
RECURSIVE RegisterAllDraft(_, _)
RegisterAllDraft(s, hs) ==
    IF hs = <<>> THEN s
    ELSE LET t == RegisterHandlerDefDraft(s, Head(hs))
         IN IF t.panic THEN t ELSE RegisterAllDraft(t, Tail(hs))

\* a call of the draft's s.RegisterHandlerDefsAndOptions(hs)
RegisterHandlerDefsAndOptionsDraftCall(D, max) ==
    \E hs \in Batches(D, max - used) :
        LET c == CollectOptionsDraft(hs, [p \in {} |-> NoOptions],
                                     [p \in {} |-> NoHeaders])
        IN /\ used' = used + Len(hs)
           /\ UNCHANGED <<reqs, process, registering>>
           /\ IF c.err # "nil"
              THEN /\ UNCHANGED <<methodRouters, HandlerDef, regLog>>
                   /\ lastCall' = [op |-> "RegisterHandlerDefsAndOptions (draft)",
                                   arg |-> hs, result |-> c.err, synth |-> <<>>]
              ELSE \E order \in RangeOrders(DOMAIN c.optionsMap) :
                     LET synth == SynthesizedOptions(c.optionsMap, order)
                         t == RegisterAllDraft(
                                  RegState(methodRouters, HandlerDef, regLog), hs \o synth)
                     IN /\ Registered(t)
                        /\ lastCall' = [op |-> "RegisterHandlerDefsAndOptions (draft)",
                                        arg |-> hs, result |-> Outcome(t), synth |-> synth]

NextDraft ==
    \/ RegisterHandlerDefsAndOptionsDraftCall(DefsOptions, MaxOptionDefs)

SpecDraft == Init /\ [][NextDraft]_vars

\* the verbs among GET, PUT, POST, DELETE, HEAD that some def of batch declares
\* on path, comma-joined in the order createOption lists them
DraftDeclaredVerbs(batch, path) ==
    LET Declared(v) == \E k \in DOMAIN batch : batch[k].Path = path /\ batch[k].Method = v
    IN Join(SelectSeq(<<"GET", "PUT", "POST", "DELETE", "HEAD">>, Declared), ",")

\* C25: in the draft, the OPTIONS handler created for a path lists every verb
\* among GET, PUT, POST, DELETE, HEAD that any def of the batch declares on that
\* path, not only the verb of the last def seen for the path.
C25_DraftOptionsAccumulate ==
    lastCall.op = "RegisterHandlerDefsAndOptions (draft)" =>
       \A i \in DOMAIN lastCall.synth :
          AllowMethodsSent(lastCall.synth[i].Handler)
             = DraftDeclaredVerbs(lastCall.arg, lastCall.synth[i].Path)

\* ---------------------------------------------------------------------------
\* Requests under a static prefix

\* C26: a request under a registered static prefix gets exactly one response and
\* never reaches the router: the 404 of onMissingHandler when the mapped file is
\* missing or a directory, the file content otherwise; onMissingHandler and the
\* file server are never both invoked for one request.
C26_StaticOneResponse ==
    \A g \in Goroutines :
        (reqs[g].pc = "done" /\ reqs[g].static)
        => /\ ~reqs[g].matched /\ reqs[g].trace = <<>>
           /\ ~(reqs[g].missing /\ reqs[g].served)
           /\ IF Stat(disk, reqs[g].filePath) \in {NoFile, Directory}
              THEN reqs[g].missing /\ reqs[g].event.sentStatus = 404
              ELSE reqs[g].served
                   /\ reqs[g].event.body = FileContent

\* ---------------------------------------------------------------------------
\* Defs without a Handler

MaxNilDefs == 2

\* a middleware def whose Handler is not set
unset == Def("", "", NilHandler, <<>>, <<>>, NoHeaders)

\* a routed def without Handler, defs that reference a def without Handler as
\* pre-handler and as post-handler, and a complete def
DefsNil ==
    {Def(GET, "/n", NilHandler, <<auth>>, <<audit>>, NoHeaders),
     Def(GET, "/pre", UserHandler("target"), <<unset>>, <<audit>>, NoHeaders),
     Def(GET, "/post", UserHandler("target"), <<auth>>, <<unset>>, NoHeaders),
     Def(GET, "/ok", UserHandler("target"), <<auth>>, <<audit>>, NoHeaders),
     unset}

RequestsNil == {<<GET, "/n">>, <<GET, "/pre">>, <<GET, "/post">>, <<GET, "/ok">>}

NextNil ==
    \/ RegisterHandlerDefCall(DefsNil, MaxNilDefs)
    \/ \E g \in Serial :
          \/ \E q \in RequestsNil : ServeHTTP(g, q[1], q[2])
          \/ InvokeHandler(g)
          \/ EndChain(g)
          \/ InvokePostHandler(g)
          \/ Return(g)
          \/ Release(g)
          \/ Abort(g)

SpecNil == Init /\ [][NextNil]_vars

\* C27: every element of every chain in the route table is a callable handler;
\* a def, or a referenced pre/post def, without Handler never gets into a chain.
C27_ChainsCallable ==
    \A m \in DOMAIN methodRouters :
       \A k \in DOMAIN methodRouters[m] :
          /\ \A i \in DOMAIN methodRouters[m][k].handlers :
                methodRouters[m][k].handlers[i] # NilHandler
          /\ \A i \in DOMAIN methodRouters[m][k].postHandlers :
                methodRouters[m][k].postHandlers[i] # NilHandler

\* ---------------------------------------------------------------------------
\* Sequences of registration calls of all three kinds

MaxCallDefs == 2

\* the methods and paths of the defs handed to the calls: routed methods, the
\* empty method, a method spelled in lower case and one that is not routed
MethodsCalls == {GET, POST, OPTIONS, "", "get", "TRACE"}

PathsCalls == {"/x", "/y"}

DefsCalls ==
    {Def(m, "/x", UserHandler("target"), <<>>, <<>>, NoHeaders) : m \in MethodsCalls}
    \cup {Def(GET, "/y", UserHandler("target"), <<>>, <<>>, NoHeaders),
          Def(POST, "/x", UserHandler("target"), <<>>, <<>>, [k \in {"A"} |-> "1"])}

NextCalls ==
    \/ RegisterHandlerDefCall(DefsCalls, MaxCallDefs)
    \/ RegisterHandlerDefsCall(DefsCalls, MaxCallDefs)
    \/ RegisterHandlerDefsAndOptionsCall(DefsCalls, MaxCallDefs)

SpecCalls == Init /\ [][NextCalls]_vars

\* the route table has a route for (method, path)
HasRoute(method, path) ==
    /\ method \in DOMAIN methodRouters
    /\ \E k \in DOMAIN methodRouters[method] : methodRouters[method][k].path = path

\* every key of a non-empty method has its route
C28_KeysRouted ==
    \A m \in MethodsCalls \ {""}, p \in PathsCalls :
        (m \o ":" \o p) \in DOMAIN HandlerDef => HasRoute(m, p)

\* C28: after any sequence of registration calls, panics and header errors
\* included, every key "M:p" of HandlerDef with non-empty M has a route for
\* (M, p) in the route table, and no key is ever removed from HandlerDef.
C28_KeysHaveRoutes ==
    /\ []C28_KeysRouted
    /\ [][DOMAIN HandlerDef \subseteq DOMAIN HandlerDef']_vars

\* a batch call registered GET /x and then panicked on a method that is not
\* routed: the key and the route of GET /x are both there
C28_Witness ==
    /\ lastCall.result = "panic"
    /\ Len(lastCall.arg) = 2
    /\ lastCall.arg[1].Method = GET /\ lastCall.arg[1].Path = "/x"
    /\ lastCall.arg[2].Method = "TRACE"
    /\ DOMAIN HandlerDef = {"GET:/x"}
    /\ HasRoute(GET, "/x")

\* the verbs a synthesized OPTIONS handler was created with
Reported(h) == {h.methods[k] : k \in DOMAIN h.methods}

\* the routes of the OPTIONS router whose handler createOption made
SynthesizedRoutes ==
    IF OPTIONS \in DOMAIN methodRouters
    THEN {k \in DOMAIN methodRouters[OPTIONS] :
             methodRouters[OPTIONS][k].handlers[1].fn = "options"}
    ELSE {}

\* C29: for every registered OPTIONS route that RegisterHandlerDefsAndOptions
\* synthesized, each verb it sends in Access-Control-Allow-Methods has a route
\* on the same path; also for batches with methods in lower case, which are
\* counted when the verbs are collected but not routed, and for batches with
\* defs of the empty or the OPTIONS method.
C29_ReportedVerbsRouted ==
    \A k \in SynthesizedRoutes :
        LET r == methodRouters[OPTIONS][k]
            h == r.handlers[1]
        IN /\ AllowMethodsSent(h) = Join(h.methods, ",")
           /\ \A v \in Reported(h) : HasRoute(v, r.path)

\* a batch of GET /x and a def of the OPTIONS method on /x succeeded: the
\* synthesized OPTIONS route of /x reports GET, and GET /x is routed
C29_Witness ==
    /\ lastCall.op = "RegisterHandlerDefsAndOptions" /\ lastCall.result = "nil"
    /\ Len(lastCall.arg) = 2
    /\ lastCall.arg[1].Method = OPTIONS /\ lastCall.arg[2].Method = GET
    /\ \E k \in SynthesizedRoutes :
          /\ methodRouters[OPTIONS][k].path = "/x"
          /\ Reported(methodRouters[OPTIONS][k].handlers[1]) = {GET}
    /\ HasRoute(GET, "/x")

\* ---------------------------------------------------------------------------
\* Defs whose pre/post defs have pre/post-handlers, a method and a path themselves

MaxFlatDefs == 2

\* a middleware def with a pre-handler and a post-handler of its own
guarded == Def("", "", UserHandler("throttle"), <<auth>>, <<audit>>, NoHeaders)

\* a routable def that other defs name as pre- or post-handler
inner == Def(GET, "/inner", UserHandler("ExampleGet"), <<auth>>, <<>>, NoHeaders)

DefsFlat ==
    {Def(m, "/x", UserHandler("target"), pre, post, NoHeaders) :
        m \in {GET, POST},
        pre \in {<<>>, <<guarded>>, <<auth, inner>>},
        post \in {<<>>, <<guarded>>, <<inner, audit>>}}
    \cup {inner}

NextFlat ==
    \/ RegisterHandlerDefCall(DefsFlat, MaxFlatDefs)

SpecFlat == Init /\ [][NextFlat]_vars

\* the step is a RegisterHandlerDef call that routes its def
RoutesDef ==
    /\ used' = used + 1
    /\ lastCall'.op = "RegisterHandlerDef"
    /\ lastCall'.result = "nil"
    /\ lastCall'.arg[1].Method # ""

\* C30: the chain RegisterHandlerDef builds is flat: len(PreHandlers) + 1 handlers
\* in the pre/target part, len(PostHandlers) in the post part, the Handler of each
\* referenced def and nothing of that def's own PreHandlers or PostHandlers; the
\* referenced defs get no route and no HandlerDef entry from the registration.
C30_FlatChain ==
    [][RoutesDef =>
         LET h == lastCall'.arg[1]
             old == IF h.Method \in DOMAIN methodRouters
                    THEN methodRouters[h.Method] ELSE <<>>
             new == methodRouters'[h.Method]
             route == new[Len(new)]
         IN /\ Len(new) = Len(old) + 1
            /\ \A k \in DOMAIN old : new[k] = old[k]
            /\ \A m \in DOMAIN methodRouters \ {h.Method} :
                  methodRouters'[m] = methodRouters[m]
            /\ route.method = h.Method /\ route.path = h.Path
            /\ Len(route.handlers) = Len(h.PreHandlers) + 1
            /\ \A i \in DOMAIN h.PreHandlers :
                  route.handlers[i] = h.PreHandlers[i].Handler
            /\ route.handlers[Len(h.PreHandlers) + 1] = h.Handler
            /\ Len(route.postHandlers) = Len(h.PostHandlers)
            /\ \A i \in DOMAIN h.PostHandlers :
                  route.postHandlers[i] = h.PostHandlers[i].Handler
            /\ DOMAIN HandlerDef' = DOMAIN HandlerDef \cup {h.Method \o ":" \o h.Path}
            /\ \A k \in DOMAIN HandlerDef \ {h.Method \o ":" \o h.Path} :
                  HandlerDef'[k] = HandlerDef[k]]_vars

\* POST /x was registered with the pre-handlers auth and inner and the
\* post-handler guarded: its chain is auth, ExampleGet, target and throttle, and
\* neither GET /inner nor the middleware def is routed or recorded
C30_Witness ==
    /\ lastCall.op = "RegisterHandlerDef" /\ lastCall.result = "nil"
    /\ lastCall.arg[1] = Def(POST, "/x", UserHandler("target"), <<auth, inner>>,
                             <<guarded>>, NoHeaders)
    /\ Len(methodRouters[POST]) = 1
    /\ Fns(methodRouters[POST][1].handlers) = <<"auth", "ExampleGet", "target">>
    /\ Fns(methodRouters[POST][1].postHandlers) = <<"throttle">>
    /\ methodRouters[GET] = <<>>
    /\ DOMAIN HandlerDef = {"POST:/x"}

====
